---- MODULE Spec2Model ----
(***************************************************************************)
(* Kaiwa Reddit Scout: the pipeline core (lexical filter, signal scorer,   *)
(* deduplicating sinks), the scheduler and the action CLI as state         *)
(* machines, one specification per component.  Text is a sequence of       *)
(* one-character strings, a URL is the sequence of its "/"-separated       *)
(* segments, an optional value is a tagged record.                         *)
(***************************************************************************)
EXTENDS Integers, Sequences, FiniteSets, TLC

VARIABLES
    \* ---- deduplicating sinks (csv_storage.py, sheets_client.py)
    csvExists,      \* leads.csv exists on disk
    csvRows,        \* its rows, header first
    sheetsConfigured, \* sheets_config.is_valid()
    sheetExists,    \* a spreadsheet of the configured name can be opened
    sheetRows,      \* the rows of its first worksheet
    sinkCall,       \* the last sink call: its input, its result, the store before
    csvPending,     \* the save_leads / save_lead call that has read the ids and not yet written
    \* ---- lexical filter (keyword_filter.py): one KeywordFilter instance
    filterCfg,      \* require_trigger, exclude_on_match
    stats,          \* the instance's counters
    statsBefore,    \* the counters before the last filter_post call
    lastPost,       \* the argument of the last direct filter_post call
    filterResult,   \* the FilterResult of the last filter_post call
    startStats,     \* the counters when filter_posts started
    otherStats,     \* the counters of a second KeywordFilter instance
    consumed,       \* the documents filter_posts has taken from its input
    yielded,        \* the Leads filter_posts has yielded
    \* ---- signal scorer (signal_scorer.py): one SignalScorer instance
    scConfigured,   \* client.is_configured()
    scBatchSize,    \* batch_size
    scThreshold,    \* threshold
    scUseBatch,     \* the use_batch argument of score_leads
    scMock,         \* the fields a deterministic backend gives each identifier
    scInput,        \* the leads as they were handed to the scorer
    scLeads,        \* the leads, updated in place
    scPos,          \* score_leads: the 0-based index i of its loop; -1 once returned
    scCall,         \* the last _score_batch / score_lead call of score_leads
    scCalls,        \* inference calls made so far, batch and single-item
    scHigh,         \* the list filter_high_signal returned
    \* ---- response generator (response_generator.py): one ResponseGenerator
    rgConfigured,   \* client.is_configured()
    rgRequireWorthy, \* require_comment_worthy
    rgInput,        \* the leads as they were handed to generate_responses_batch
    rgLeads,        \* the leads, updated in place
    rgPos,          \* generate_responses_batch: the 0-based index of its loop; -1 once returned
    rgSkipped,      \* skipped_count
    rgCall,         \* the last generate_responses call and its inference calls
    \* ---- inference client (gemini_client.py): one GeminiClient
    gcConfigured,   \* bool(api_key)
    gcNetwork,      \* urlopen attempts made so far
    gcCall,         \* the last call of the client and what it returned
    \* ---- orchestrator (main.py): run_scout, run after run on one store
    ruConfigured,   \* gemini_config.is_valid()
    ruAnalyze,      \* the analyze argument
    ruFeed,         \* the documents the feed yields
    ruRun,          \* the number of the run
    ruStage,        \* where the run is
    ruTrace,        \* the stages the run has executed, in order
    ruPosts,        \* posts
    ruLeads,        \* leads
    ruHigh,         \* high_signal_leads
    ruStats,        \* keyword_filter.stats
    ruAnswers,      \* what the backend answered about each lead in the Score stage
    ruCalls,        \* scorer, generator and inference calls of the run
    ruReport,       \* the statistics the run returned
    \* ---- scheduler (scheduler.py)
    schPc,          \* where main is
    running,        \* the flag the signal handler clears
    runOnce,        \* --run-once
    run_count,      \* runs started by the loop
    success_count,  \* runs that returned True
    success,        \* what the last run_scout call returned
    sleepLeft,      \* sleep increments left until the next run
    \* ---- action CLI (action.py)
    acFile,         \* data/leads.csv as the CLI reads it: columns and rows
    acCall          \* the last cmd_sent call

sinkVars == <<csvExists, csvRows, sheetsConfigured, sheetExists, sheetRows, sinkCall,
              csvPending>>

filterVars == <<filterCfg, stats, statsBefore, lastPost, filterResult, startStats,
                otherStats,
                consumed, yielded>>

scorerVars == <<scConfigured, scBatchSize, scThreshold, scUseBatch, scMock, scInput,
                scLeads, scPos, scCall, scCalls, scHigh>>

generatorVars == <<rgConfigured, rgRequireWorthy, rgInput, rgLeads, rgPos, rgSkipped,
                   rgCall>>

clientVars == <<gcConfigured, gcNetwork, gcCall>>

runVars == <<ruConfigured, ruAnalyze, ruFeed, ruRun, ruStage, ruTrace, ruPosts, ruLeads,
             ruHigh, ruStats, ruAnswers, ruCalls, ruReport>>

schedulerVars == <<schPc, running, runOnce, run_count, success_count, success, sleepLeft>>

actionVars == <<acFile, acCall>>

vars == <<csvExists, csvRows, sheetsConfigured, sheetExists, sheetRows, sinkCall,
          csvPending,
          filterCfg, stats, statsBefore, lastPost, filterResult, startStats, otherStats,
          consumed, yielded,
          scConfigured, scBatchSize, scThreshold, scUseBatch, scMock, scInput,
          scLeads, scPos, scCall, scCalls, scHigh,
          rgConfigured, rgRequireWorthy, rgInput, rgLeads, rgPos, rgSkipped, rgCall,
          gcConfigured, gcNetwork, gcCall,
          ruConfigured, ruAnalyze, ruFeed, ruRun, ruStage, ruTrace, ruPosts, ruLeads,
          ruHigh, ruStats, ruAnswers, ruCalls, ruReport,
          schPc, running, runOnce, run_count, success_count, success, sleepLeft,
          acFile, acCall>>

----------------------------------------------------------------------------
(* Bounds of the model *)

\* longest list handed to a batch append
MaxBatch == 2
\* the sinks stop accepting calls once a store holds this many candidate rows
MaxRows == 3
\* longest title of a document
MaxTitleLen == 2
\* filter_post calls an instance has served before the one observed
MaxPrior == 1
\* longest input of filter_posts
MaxFeed == 2
\* longest list handed to score_leads
MaxLeads == 3
\* largest batch_size of a SignalScorer
MaxBatchSize == 2
\* longest array in a batch response
MaxItems == 2
\* longest list handed to filter_high_signal
MaxScored == 4
\* longest list handed to generate_responses_batch
MaxDrafted == 2
\* longest completion text, in tokens
MaxTextLen == 4
\* longest feed of a run, the five documents of the end-to-end feed apart
MaxRunFeed == 2
\* runs on one store
MaxRuns == 2

\* runs the scheduler loop starts
MaxSchedulerRuns == 3
\* sleep increments between two runs: the interval in steps of ten seconds
SleepSteps == 2
\* rows of the leads file the action CLI finds
MaxStored == 3

----------------------------------------------------------------------------
(* Generic helpers *)

Min(S) == CHOOSE x \in S : \A y \in S : x <= y

RECURSIVE SeqsUpTo(_, _)
\* all sequences over S of length at most n
SeqsUpTo(S, n) ==
    IF n = 0 THEN {<<>>}
    ELSE LET shorter == SeqsUpTo(S, n - 1)
         IN  shorter \cup {Append(s, x) : s \in shorter, x \in S}

----------------------------------------------------------------------------
(* Data model: storage/models.py *)

PostIds == {"p1", "p2"}

\* the permalink of a submission: "/r/<sub>/comments/<id>/<slug>/"
Permalink(sub, id) == <<"", "r", sub, "comments", id, "slug", "">>

\* RedditPost.direct_url: "https://reddit.com" + permalink
direct_url(post) == <<"https:", "", "reddit.com">> \o Tail(post.permalink)

\* RedditPost.full_text: title, a space, body
full_text(post) == post.title \o <<" ">> \o post.selftext

\* an unset Optional field
None == [t |-> "none"]

\* Lead.from_post (title, body, dates and counters are carried along
\* unchanged and left out here)
from_post(post, matched_triggers) ==
    [post_id |-> post.id, author |-> post.author, post_url |-> direct_url(post),
     matched_triggers |-> matched_triggers,
     signal_score |-> None, signal_type |-> None, category |-> None,
     comment_worthy |-> None, comment_worthy_reason |-> None,
     public_draft |-> None, dm_draft |-> None]

\* the posts the sinks' candidates are built from
SinkPosts ==
    {[id |-> i, subreddit |-> "French", author |-> "u1", title |-> <<"b", "1">>,
      selftext |-> <<>>, permalink |-> Permalink("French", i)] : i \in PostIds}

SinkLeads == {from_post(p, <<"b1">>) : p \in SinkPosts}

\* a submission of the subreddit whose name is "comments", as
\* _submission_to_post builds it
CommentsPost ==
    [id |-> "c1", subreddit |-> "comments", author |-> "u1", title |-> <<"b", "1">>,
     selftext |-> <<>>, permalink |-> Permalink("comments", "c1")]

\* leads of any subreddit
AnySubLeads == SinkLeads \cup {from_post(CommentsPost, <<"b1">>)}

----------------------------------------------------------------------------
(* Sinks: storage/csv_storage.py and output/sheets_client.py *)

NoId == "<none>"

\* the identifier between "/comments/" and the next "/" of a stored URL
ExtractPostId(url) ==
    LET at == {i \in 2..(Len(url) - 1) : url[i] = "comments"}
    IN  IF at = {} THEN NoId ELSE url[Min(at) + 1]

HeaderRow == [kind |-> "header", post_id |-> NoId, post_url |-> <<"Post URL">>]

LeadRow(lead) == [kind |-> "lead", post_id |-> lead.post_id, post_url |-> lead.post_url]

IdsOfUrls(urls) ==
    {ExtractPostId(urls[i]) : i \in 1..Len(urls)} \ {NoId}

\* CSVStorage.get_existing_post_ids: pandas takes the first line as the header
CsvExistingIds(exists, rows) ==
    IF ~exists THEN {}
    ELSE IdsOfUrls([i \in 1..(Len(rows) - 1) |-> rows[i + 1].post_url])

\* SheetsClient._get_or_create_sheet: a spreadsheet that cannot be opened is
\* created and gets the header row; one that can be opened is used as it is
OpenedSheet(exists, rows) == IF exists THEN rows ELSE <<HeaderRow>>

\* SheetsClient.get_existing_post_ids on the opened sheet: column E without
\* its first cell
SheetExistingIds(rows) ==
    IdsOfUrls([i \in 1..(Len(rows) - 1) |-> rows[i + 1].post_url])

RECURSIVE DedupLoop(_, _, _)
\* the loop of save_leads / append_leads over the remaining leads:
\* acc = [ids, rows, saved, skipped]
DedupLoop(leads, k, acc) ==
    IF k > Len(leads) THEN acc
    ELSE IF leads[k].post_id \in acc.ids
         THEN DedupLoop(leads, k + 1, [acc EXCEPT !.skipped = @ + 1])
         ELSE DedupLoop(leads, k + 1,
                        [ids |-> acc.ids \cup {leads[k].post_id},
                         rows |-> Append(acc.rows, LeadRow(leads[k])),
                         saved |-> acc.saved + 1,
                         skipped |-> acc.skipped])

DedupBatch(leads, existing) ==
    DedupLoop(leads, 1, [ids |-> existing, rows |-> <<>>, saved |-> 0, skipped |-> 0])

LeadRows(rows) == SelectSeq(rows, LAMBDA r : r.kind = "lead")

Batches == SeqsUpTo(SinkLeads, MaxBatch)

CallRecord(op, leads, saved, skipped, before, after) ==
    [op |-> op, leads |-> leads, saved |-> saved, skipped |-> skipped,
     before |-> LeadRows(before),
     written |-> SubSeq(LeadRows(after), Len(LeadRows(before)) + 1, Len(LeadRows(after)))]

\* no call is between its dedup read and its write
NoPending == [op |-> "none", leads |-> <<>>, existing |-> {}]

SinkInit ==
    /\ csvExists = FALSE
    /\ csvRows = <<>>
    /\ sheetsConfigured \in BOOLEAN
    /\ sheetExists \in BOOLEAN
    /\ sheetRows = <<>>
    /\ sinkCall = [op |-> "none", leads |-> <<>>, saved |-> 0, skipped |-> 0,
                   before |-> <<>>, written |-> <<>>]
    /\ csvPending = NoPending

\* CSVStorage._ensure_file_exists
EnsuredCsv == IF csvExists THEN csvRows ELSE <<HeaderRow>>

\* CSVStorage.save_leads
CsvSaveLeads(leads) ==
    /\ Len(LeadRows(csvRows)) < MaxRows
    /\ LET file == EnsuredCsv
           out  == DedupBatch(leads, CsvExistingIds(TRUE, file))
       IN  /\ csvExists' = TRUE
           /\ csvRows' = file \o out.rows
           /\ sinkCall' = CallRecord("csv.save_leads", leads, out.saved, out.skipped,
                                     csvRows, file \o out.rows)
    /\ UNCHANGED <<sheetsConfigured, sheetExists, sheetRows, csvPending>>

\* CSVStorage.save_lead
CsvSaveLead(lead) ==
    /\ Len(LeadRows(csvRows)) < MaxRows
    /\ LET file == EnsuredCsv
           dup  == lead.post_id \in CsvExistingIds(TRUE, file)
           new  == IF dup THEN file ELSE Append(file, LeadRow(lead))
       IN  /\ csvExists' = TRUE
           /\ csvRows' = new
           /\ sinkCall' = CallRecord("csv.save_lead", <<lead>>,
                                     IF dup THEN 0 ELSE 1, IF dup THEN 1 ELSE 0,
                                     csvRows, new)
    /\ UNCHANGED <<sheetsConfigured, sheetExists, sheetRows, csvPending>>

\* mutant: the rows of a call that raises are not in the file
CsvSaveLeadsRaising_discarding(leads, n) ==
    /\ Len(LeadRows(csvRows)) < MaxRows
    /\ n < Len(leads)
    /\ LET file == EnsuredCsv
           out  == DedupBatch(SubSeq(leads, 1, n), CsvExistingIds(TRUE, file))
       IN  /\ leads[n + 1].post_id \notin out.ids
           /\ csvExists' = TRUE
           /\ csvRows' = file
           /\ sinkCall' = [CallRecord("csv.save_leads.raised", leads, out.saved,
                                      out.skipped, csvRows, file \o out.rows)
                              EXCEPT !.written = out.rows]
    /\ UNCHANGED <<sheetsConfigured, sheetExists, sheetRows, csvPending>>

\* CSVStorage.save_leads when lead n + 1 of the batch, which is no duplicate,
\* makes to_csv_row or writerow raise: the loop has gone through n leads,
\* the with block closes the file and the exception leaves save_leads
CsvSaveLeadsRaising(leads, n) ==
    /\ Len(LeadRows(csvRows)) < MaxRows
    /\ n < Len(leads)
    /\ LET file == EnsuredCsv
           out  == DedupBatch(SubSeq(leads, 1, n), CsvExistingIds(TRUE, file))
       IN  /\ leads[n + 1].post_id \notin out.ids
           /\ csvExists' = TRUE
           /\ csvRows' = file \o out.rows
           /\ sinkCall' = [CallRecord("csv.save_leads.raised", leads, out.saved,
                                      out.skipped, csvRows, file \o out.rows)
                              EXCEPT !.written = out.rows]
    /\ UNCHANGED <<sheetsConfigured, sheetExists, sheetRows, csvPending>>

\* CSVStorage.save_leads up to its dedup read: _ensure_file_exists, then
\* existing_ids = self.get_existing_post_ids()
CsvSaveLeadsRead(leads) ==
    /\ csvPending.op = "none"
    /\ Len(LeadRows(csvRows)) < MaxRows
    /\ LET file == EnsuredCsv
       IN  /\ csvExists' = TRUE
           /\ csvRows' = file
           /\ csvPending' = [op |-> "csv.save_leads", leads |-> leads,
                             existing |-> CsvExistingIds(TRUE, file)]
    /\ UNCHANGED <<sheetsConfigured, sheetExists, sheetRows, sinkCall>>

\* CSVStorage.save_leads from the open of the file in append mode: the loop
\* tests each lead against the ids read before and appends to the file as it
\* is now
CsvSaveLeadsWrite ==
    /\ csvPending.op = "csv.save_leads"
    /\ LET out == DedupBatch(csvPending.leads, csvPending.existing)
       IN  /\ csvRows' = csvRows \o out.rows
           /\ sinkCall' = CallRecord("csv.save_leads", csvPending.leads, out.saved,
                                     out.skipped, csvRows, csvRows \o out.rows)
    /\ csvPending' = NoPending
    /\ UNCHANGED <<csvExists, sheetsConfigured, sheetExists, sheetRows>>

\* CSVStorage.save_lead up to its dedup read
CsvSaveLeadRead(lead) ==
    /\ csvPending.op = "none"
    /\ Len(LeadRows(csvRows)) < MaxRows
    /\ LET file == EnsuredCsv
       IN  /\ csvExists' = TRUE
           /\ csvRows' = file
           /\ csvPending' = [op |-> "csv.save_lead", leads |-> <<lead>>,
                             existing |-> CsvExistingIds(TRUE, file)]
    /\ UNCHANGED <<sheetsConfigured, sheetExists, sheetRows, sinkCall>>

\* CSVStorage.save_lead from its duplicate test
CsvSaveLeadWrite ==
    /\ csvPending.op = "csv.save_lead"
    /\ LET lead == csvPending.leads[1]
           dup  == lead.post_id \in csvPending.existing
           new  == IF dup THEN csvRows ELSE Append(csvRows, LeadRow(lead))
       IN  /\ csvRows' = new
           /\ sinkCall' = CallRecord("csv.save_lead", <<lead>>,
                                     IF dup THEN 0 ELSE 1, IF dup THEN 1 ELSE 0,
                                     csvRows, new)
    /\ csvPending' = NoPending
    /\ UNCHANGED <<csvExists, sheetsConfigured, sheetExists, sheetRows>>

\* another process (a second scout run, started by hand or by the scheduler)
\* runs save_lead on the same file from its read to its write, and its lead
\* is new to the file
ExternalWrite(lead) ==
    /\ Len(LeadRows(csvRows)) < MaxRows
    /\ LET file == EnsuredCsv
       IN  /\ lead.post_id \notin CsvExistingIds(TRUE, file)
           /\ csvExists' = TRUE
           /\ csvRows' = Append(file, LeadRow(lead))
    /\ UNCHANGED <<sheetsConfigured, sheetExists, sheetRows, sinkCall, csvPending>>

\* SheetsClient.append_leads; readOk / writeOk: whether the Sheets API calls
\* of the dedup read and of the bulk append succeed
SheetsAppendLeads(leads, readOk, writeOk) ==
    /\ Len(LeadRows(sheetRows)) < MaxRows
    /\ IF ~sheetsConfigured
       THEN /\ sinkCall' = CallRecord("sheets.append_leads", leads, 0, Len(leads),
                                      sheetRows, sheetRows)
            /\ UNCHANGED <<sheetExists, sheetRows>>
       ELSE IF leads = <<>>
       THEN /\ sinkCall' = CallRecord("sheets.append_leads", leads, 0, 0,
                                      sheetRows, sheetRows)
            /\ UNCHANGED <<sheetExists, sheetRows>>
       ELSE LET opened   == IF readOk THEN OpenedSheet(sheetExists, sheetRows) ELSE sheetRows
                isOpen   == sheetExists \/ readOk
                existing == IF readOk THEN SheetExistingIds(opened) ELSE {}
                out      == DedupBatch(leads, existing)
                target   == OpenedSheet(isOpen, opened)
            IN  IF out.rows = <<>>
                THEN /\ sheetExists' = isOpen
                     /\ sheetRows' = opened
                     /\ sinkCall' = CallRecord("sheets.append_leads", leads,
                                               out.saved, out.skipped, sheetRows, opened)
                ELSE IF writeOk
                THEN /\ sheetExists' = TRUE
                     /\ sheetRows' = target \o out.rows
                     /\ sinkCall' = CallRecord("sheets.append_leads", leads,
                                               out.saved, out.skipped, sheetRows,
                                               target \o out.rows)
                ELSE /\ sheetExists' = isOpen
                     /\ sheetRows' = opened
                     /\ sinkCall' = CallRecord("sheets.append_leads", leads,
                                               0, Len(leads), sheetRows, opened)
    /\ UNCHANGED <<csvExists, csvRows, sheetsConfigured, csvPending>>

\* SheetsClient.append_lead
SheetsAppendLead(lead, readOk, writeOk) ==
    /\ Len(LeadRows(sheetRows)) < MaxRows
    /\ IF ~sheetsConfigured
       THEN /\ sinkCall' = CallRecord("sheets.append_lead", <<lead>>, 0, 1,
                                      sheetRows, sheetRows)
            /\ UNCHANGED <<sheetExists, sheetRows>>
       ELSE LET opened   == IF readOk THEN OpenedSheet(sheetExists, sheetRows) ELSE sheetRows
                isOpen   == sheetExists \/ readOk
                existing == IF readOk THEN SheetExistingIds(opened) ELSE {}
                target   == OpenedSheet(isOpen, opened)
            IN  IF lead.post_id \in existing \/ ~writeOk
                THEN /\ sheetExists' = isOpen
                     /\ sheetRows' = opened
                     /\ sinkCall' = CallRecord("sheets.append_lead", <<lead>>, 0, 1,
                                               sheetRows, opened)
                ELSE /\ sheetExists' = TRUE
                     /\ sheetRows' = Append(target, LeadRow(lead))
                     /\ sinkCall' = CallRecord("sheets.append_lead", <<lead>>, 1, 0,
                                               sheetRows, Append(target, LeadRow(lead)))
    /\ UNCHANGED <<csvExists, csvRows, sheetsConfigured, csvPending>>

----------------------------------------------------------------------------
(* Lexical filter: config/keywords.py and scraper/keyword_filter.py *)

\* the characters documents are written in
Alphabet == {"b", "B", "n", "1", "2"}

\* str.lower
LowerChar(c) == IF c = "B" THEN "b" ELSE c

lower(text) == [i \in 1..Len(text) |-> LowerChar(text[i])]

\* the two-character entries of the trigger list ("b1", "b2")
TRIGGER_KEYWORDS == << <<"b", "1">>, <<"b", "2">> >>

\* the two-character entries of the exclusion list ("n1", "n2")
EXCLUDE_KEYWORDS == << <<"n", "1">>, <<"n", "2">> >>

\* Python's  kw in text
IsSubstring(kw, text) ==
    \E i \in 1..(Len(text) - Len(kw) + 1) : SubSeq(text, i, i + Len(kw) - 1) = kw

\* mutant: the text is not lower-cased before matching
MatchedKeywordsCaseSensitive(keywords, text) ==
    SelectSeq(keywords, LAMBDA kw : IsSubstring(kw, text))

MatchedKeywords(keywords, text) ==
    SelectSeq(keywords, LAMBDA kw : IsSubstring(kw, lower(text)))

has_trigger_keyword(text) == MatchedKeywords(TRIGGER_KEYWORDS, text)

has_exclude_keyword(text) == MatchedKeywords(EXCLUDE_KEYWORDS, text)

DELETED == "[deleted]"

Authors == {DELETED, "u1"}

Titles == SeqsUpTo(Alphabet, MaxTitleLen)

\* a body is empty or one keyword
Bodies == {<<>>} \cup {TRIGGER_KEYWORDS[i] : i \in 1..Len(TRIGGER_KEYWORDS)}
                 \cup {EXCLUDE_KEYWORDS[i] : i \in 1..Len(EXCLUDE_KEYWORDS)}

Posts ==
    {[id |-> i, subreddit |-> "French", author |-> a, title |-> t, selftext |-> b,
      permalink |-> Permalink("French", i)] :
        i \in PostIds, a \in Authors, t \in Titles, b \in Bodies}

\* the documents a feed handed to filter_posts is made of: no title or a
\* trigger keyword as title, any body
FeedPosts ==
    {post \in Posts :
        post.title = <<>> \/ \E k \in 1..Len(TRIGGER_KEYWORDS) : post.title = TRIGGER_KEYWORDS[k]}

NoPost == [id |-> NoId]

NoResult == [passed |-> FALSE, post_id |-> NoId, matched_triggers |-> <<>>,
             matched_excludes |-> <<>>, reason |-> "none"]

Result(post, passed, triggers, excludes, reason) ==
    [passed |-> passed, post_id |-> post.id, matched_triggers |-> triggers,
     matched_excludes |-> excludes, reason |-> reason]

\* mutant: the call is counted and its outcome is not
Bump_total_only(st, counter) == [st EXCEPT !.total = @ + 1]

Bump(st, counter) == [st EXCEPT !.total = @ + 1, ![counter] = @ + 1]

\* mutant: the exclusion check runs before the deleted-author check
filter_post_exclusion_first(cfg, st, post) ==
    LET text     == full_text(post)
        excludes == has_exclude_keyword(text)
        triggers == has_trigger_keyword(text)
    IN  IF cfg.exclude_on_match /\ excludes # <<>>
        THEN [stats |-> Bump(st, "excluded"),
              result |-> Result(post, FALSE, <<>>, excludes, "excluded")]
        ELSE IF post.author = DELETED
        THEN [stats |-> Bump(st, "deleted_author"),
              result |-> Result(post, FALSE, <<>>, <<>>, "deleted_author")]
        ELSE IF cfg.require_trigger /\ triggers = <<>>
        THEN [stats |-> Bump(st, "no_trigger"),
              result |-> Result(post, FALSE, <<>>, <<>>, "no_trigger")]
        ELSE [stats |-> Bump(st, "passed"),
              result |-> Result(post, TRUE, triggers, excludes, "passed")]

\* mutant: the trigger requirement is checked before the exclusion keywords
filter_post_trigger_first(cfg, st, post) ==
    LET text     == full_text(post)
        excludes == has_exclude_keyword(text)
        triggers == has_trigger_keyword(text)
    IN  IF post.author = DELETED
        THEN [stats |-> Bump(st, "deleted_author"),
              result |-> Result(post, FALSE, <<>>, <<>>, "deleted_author")]
        ELSE IF cfg.require_trigger /\ triggers = <<>>
        THEN [stats |-> Bump(st, "no_trigger"),
              result |-> Result(post, FALSE, <<>>, <<>>, "no_trigger")]
        ELSE IF cfg.exclude_on_match /\ excludes # <<>>
        THEN [stats |-> Bump(st, "excluded"),
              result |-> Result(post, FALSE, <<>>, excludes, "excluded")]
        ELSE [stats |-> Bump(st, "passed"),
              result |-> Result(post, TRUE, triggers, excludes, "passed")]

\* mutant: the exclusion branch returns passed=True
filter_post_excluded_passes(cfg, st, post) ==
    LET text     == full_text(post)
        excludes == has_exclude_keyword(text)
        triggers == has_trigger_keyword(text)
    IN  IF post.author = DELETED
        THEN [stats |-> Bump(st, "deleted_author"),
              result |-> Result(post, FALSE, <<>>, <<>>, "deleted_author")]
        ELSE IF cfg.exclude_on_match /\ excludes # <<>>
        THEN [stats |-> Bump(st, "excluded"),
              result |-> Result(post, TRUE, <<>>, excludes, "excluded")]
        ELSE IF cfg.require_trigger /\ triggers = <<>>
        THEN [stats |-> Bump(st, "no_trigger"),
              result |-> Result(post, FALSE, <<>>, <<>>, "no_trigger")]
        ELSE [stats |-> Bump(st, "passed"),
              result |-> Result(post, TRUE, triggers, excludes, "passed")]

\* KeywordFilter.filter_post: the counters after the call and the FilterResult
filter_post(cfg, st, post) ==
    LET text     == full_text(post)
        excludes == has_exclude_keyword(text)
        triggers == has_trigger_keyword(text)
    IN  IF post.author = DELETED
        THEN [stats |-> Bump(st, "deleted_author"),
              result |-> Result(post, FALSE, <<>>, <<>>, "deleted_author")]
        ELSE IF cfg.exclude_on_match /\ excludes # <<>>
        THEN [stats |-> Bump(st, "excluded"),
              result |-> Result(post, FALSE, <<>>, excludes, "excluded")]
        ELSE IF cfg.require_trigger /\ triggers = <<>>
        THEN [stats |-> Bump(st, "no_trigger"),
              result |-> Result(post, FALSE, <<>>, <<>>, "no_trigger")]
        ELSE [stats |-> Bump(st, "passed"),
              result |-> Result(post, TRUE, triggers, excludes, "passed")]

ZeroStats == [total |-> 0, passed |-> 0, no_trigger |-> 0, excluded |-> 0,
              deleted_author |-> 0]

\* the counters an instance of this configuration can show after at most
\* MaxPrior calls
PriorStats(cfg) ==
    {st \in [total : 0..MaxPrior, passed : 0..MaxPrior, no_trigger : 0..MaxPrior,
             excluded : 0..MaxPrior, deleted_author : 0..MaxPrior] :
        /\ st.total = st.passed + st.no_trigger + st.excluded + st.deleted_author
        /\ (st.no_trigger > 0 => cfg.require_trigger)
        /\ (st.excluded > 0 => cfg.exclude_on_match)}

\* KeywordFilter.__init__, and the calls the instance served so far
FilterInit ==
    /\ filterCfg \in [require_trigger : BOOLEAN, exclude_on_match : BOOLEAN]
    /\ stats \in PriorStats(filterCfg)
    /\ statsBefore = stats
    /\ lastPost = NoPost
    /\ filterResult = NoResult
    /\ startStats = stats
    /\ otherStats = ZeroStats
    /\ consumed = <<>>
    /\ yielded = <<>>

\* one iteration of the loop of filter_posts on the next document of its
\* input: filter_post, then Lead.from_post and the yield when it passed
LoopBody(post) ==
    /\ LET out == filter_post(filterCfg, stats, post)
       IN  /\ stats' = out.stats
           /\ filterResult' = out.result
           /\ consumed' = Append(consumed, [id |-> post.id, passed |-> out.result.passed])
           /\ yielded' = IF out.result.passed
                         THEN Append(yielded, from_post(post, out.result.matched_triggers))
                         ELSE yielded
    /\ statsBefore' = stats
    /\ UNCHANGED <<filterCfg, startStats, otherStats>>

\* filter_posts on an input of one document, the document kept
FilterPost(post) ==
    /\ consumed = <<>>
    /\ LoopBody(post)
    /\ lastPost' = post

\* filter_posts on a longer input, document after document
FilterPostsStep(post) ==
    /\ Len(consumed) < MaxFeed
    /\ LoopBody(post)
    /\ UNCHANGED lastPost

\* filter_post on a second KeywordFilter instance of the same settings
OtherFilterPost(post) ==
    /\ otherStats.total < MaxPrior
    /\ otherStats' = filter_post(filterCfg, otherStats, post).stats
    /\ UNCHANGED <<filterCfg, stats, statsBefore, lastPost, filterResult, startStats,
                   consumed, yielded>>

----------------------------------------------------------------------------
(* Signal scorer: analyzer/signal_scorer.py *)

IntVal(n) == [t |-> "int", v |-> n]

StrVal(x) == [t |-> "str", v |-> x]

\* GeminiConfig.signal_threshold when SIGNAL_THRESHOLD is not set
SIGNAL_THRESHOLD == 7

\* the defaults of result.get("score", 5), .get("signal_type", "MEDIUM"),
\* .get("category", "General Learning")
DEFAULT_SCORE == 5

DEFAULT_SIGNAL_TYPE == "MEDIUM"

DEFAULT_CATEGORY == "General Learning"

\* identifiers of the leads handed to the scorer, all different
ScoreIds == <<"s1", "s2", "s3", "s4", "s5", "s6">>

\* an identifier no lead carries
ForeignId == "zz"

ScorePost(k) ==
    [id |-> ScoreIds[k], subreddit |-> "French", author |-> "u1",
     title |-> <<"b", "1">>, selftext |-> <<>>,
     permalink |-> Permalink("French", ScoreIds[k])]

\* the k-th lead as the filter hands it over: the analysis fields are None
FreshLead(k) == from_post(ScorePost(k), <<"b1">>)

FreshLeads(n) == [k \in 1..n |-> FreshLead(k)]

\* a key of a JSON object that is not there
Absent == [t |-> "absent"]

\* JSON objects of a response, by the three keys the scorer reads: all
\* three, the score only, none of them
Payloads ==
    { [score |-> IntVal(8), signal_type |-> StrVal("HIGH"), category |-> StrVal("Pain Point")],
      [score |-> IntVal(3), signal_type |-> Absent, category |-> Absent],
      [score |-> Absent, signal_type |-> Absent, category |-> Absent] }

EmptyObject == [score |-> Absent, signal_type |-> Absent, category |-> Absent]

\* dict.get(key, default)
Get(value, default) == IF value.t = "absent" THEN default ELSE value

\* the three assignments of score_lead and of _score_batch
Assign(lead, result) ==
    [lead EXCEPT !.signal_score = Get(result.score, IntVal(DEFAULT_SCORE)),
                 !.signal_type = Get(result.signal_type, StrVal(DEFAULT_SIGNAL_TYPE)),
                 !.category = Get(result.category, StrVal(DEFAULT_CATEGORY))]

\* What client.generate_json returns and json.loads makes of it:
\*   none     None or an empty text
\*   garbage  a text json.loads rejects (JSONDecodeError)
\*   scalar   a JSON number, true, false or null
\*   object   a JSON object; p holds the keys the scorer reads
\*   array    a JSON array; an item is an object with an "id" key or a value
\*            that is no object (junk)
RNone == [t |-> "none"]

RGarbage == [t |-> "garbage"]

RScalar == [t |-> "scalar"]

RObject(p) == [t |-> "object", p |-> p]

RArray(items) == [t |-> "array", items |-> items]

Junk == [t |-> "junk"]

Item(id, p) == [t |-> "obj", id |-> id, p |-> p]

\* the responses a single-item call can get
SingleResponses ==
    {RNone, RGarbage, RScalar, RArray(<<>>)} \cup {RObject(p) : p \in Payloads}

\* the items a batch response for the leads lo..hi can hold: objects naming
\* a lead of the group or no lead of it, and junk
ItemsFor(lo, hi) ==
    {Item(id, p) : id \in {ScoreIds[k] : k \in lo..hi} \cup {ForeignId}, p \in Payloads}
        \cup {Junk}

\* the responses a batch call for the leads lo..hi can get
BatchResponses(lo, hi) ==
    {RNone, RGarbage, RScalar}
        \cup {RObject(p) : p \in Payloads}
        \cup {RArray(items) : items \in SeqsUpTo(ItemsFor(lo, hi), MaxItems)}

\* mutant: a response that is no object leaves the get defaults on the lead
score_lead_defaults_on_failure(lead, response) ==
    IF response.t = "object" THEN Assign(lead, response.p)
    ELSE Assign(lead, EmptyObject)

\* SignalScorer.score_lead on a configured client: the lead after the call
score_lead(lead, response) ==
    IF response.t = "object" THEN Assign(lead, response.p)
    ELSE lead

\* iterating the parsed response and calling r.get("id") on each element
\* raises: a scalar is not iterable, the keys of an object and junk have no get
MapRaises(response) ==
    \/ response.t = "scalar"
    \/ response.t = "object" /\ response.p # EmptyObject
    \/ response.t = "array" /\ \E i \in 1..Len(response.items) : response.items[i].t = "junk"

\* the elements of a parsed response that raised nothing
ItemsOf(response) == IF response.t = "array" THEN response.items ELSE <<>>

\* results_map = {r.get("id"): r for r in results}: the last item of an
\* identifier stays
results_map(items) ==
    [id \in {items[i].id : i \in 1..Len(items)} |->
        LET at == {i \in 1..Len(items) : items[i].id = id}
        IN  items[CHOOSE i \in at : \A j \in at : j <= i].p]

\* _score_batch takes the fallback: no response, a JSONDecodeError, or any
\* other exception
FallsBack(response) ==
    \/ response.t = "none"
    \/ response.t = "garbage"
    \/ MapRaises(response)


\* mutant: the results are matched to the leads by position
score_batch_by_position(leads, response, singles) ==
    IF FallsBack(response)
    THEN [leads |-> [k \in 1..Len(leads) |-> score_lead(leads[k], singles[k])],
          fallback |-> TRUE]
    ELSE LET items == ItemsOf(response)
         IN  [leads |-> [k \in 1..Len(leads) |->
                            IF k <= Len(items)
                            THEN Assign(leads[k], items[k].p)
                            ELSE leads[k]],
              fallback |-> FALSE]

\* SignalScorer._score_batch on a non-empty group: the leads after the call
\* and whether the fallback ran; singles[k] is the response the fallback's
\* score_lead call for the k-th lead gets
score_batch(leads, response, singles) ==
    IF FallsBack(response)
    THEN [leads |-> [k \in 1..Len(leads) |-> score_lead(leads[k], singles[k])],
          fallback |-> TRUE]
    ELSE LET map == results_map(ItemsOf(response))
         IN  [leads |-> [k \in 1..Len(leads) |->
                            IF leads[k].post_id \in DOMAIN map
                            THEN Assign(leads[k], map[leads[k].post_id])
                            ELSE leads[k]],
              fallback |-> FALSE]

\* mutant: a score equal to the threshold does not qualify
filter_high_signal_above(leads, threshold) ==
    SelectSeq(leads, LAMBDA lead :
        lead.signal_score.t # "none" /\ lead.signal_score.v > threshold)

\* SignalScorer.filter_high_signal
filter_high_signal(leads, threshold) ==
    SelectSeq(leads, LAMBDA lead :
        lead.signal_score.t # "none" /\ lead.signal_score.v >= threshold)

NoCall == [op |-> "none", lo |-> 0, hi |-> 0, response |-> RNone, singles |-> <<>>,
           before |-> <<>>, fallback |-> FALSE]

NoCalls == [batch |-> 0, single |-> 0]

\* a SignalScorer and the list score_leads is called with
ScorerInit ==
    /\ scConfigured \in BOOLEAN
    /\ scBatchSize \in 1..MaxBatchSize
    /\ scThreshold = SIGNAL_THRESHOLD
    /\ scUseBatch \in BOOLEAN
    /\ \E n \in 0..MaxLeads : scInput = FreshLeads(n)
    /\ scLeads = scInput
    /\ scPos = 0
    /\ scCall = NoCall
    /\ scCalls = NoCalls
    /\ scHigh = <<>>

Running == scPos >= 0

Batching == scUseBatch /\ Len(scLeads) > 1

\* score_leads returns at once: the client is not configured, or the list is
\* empty
ScoreLeadsReturnsEarly ==
    /\ Running /\ scPos = 0
    /\ ~scConfigured \/ scLeads = <<>>
    /\ scPos' = -1
    /\ UNCHANGED <<scConfigured, scBatchSize, scThreshold, scUseBatch, scMock, scInput,
                   scLeads, scCall, scCalls, scHigh>>

\* score_leads is in its batch loop, in its individual loop
BatchTurn == Running /\ scConfigured /\ scLeads # <<>> /\ Batching

SingleTurn == Running /\ scConfigured /\ scLeads # <<>> /\ ~Batching

\* mutant: the loop moves on by one lead, so a lead is sent again with the
\* next group
Advance_by_one(i, d) == IF i + 1 < Len(scLeads) THEN i + 1 ELSE -1

\* the position after the loop body at i with step d
Advance(i, d) == IF i + d < Len(scLeads) THEN i + d ELSE -1

\* one iteration of the batch loop of score_leads: _score_batch on
\* leads[i:i + batch_size]
ScoreBatch(response, singles) ==
    /\ BatchTurn
    /\ LET lo    == scPos + 1
           hi    == IF scPos + scBatchSize < Len(scLeads)
                    THEN scPos + scBatchSize ELSE Len(scLeads)
           group == SubSeq(scLeads, lo, hi)
           out   == score_batch(group, response, singles)
       IN  /\ Len(singles) = IF FallsBack(response) THEN Len(group) ELSE 0
           /\ scLeads' = [k \in 1..Len(scLeads) |->
                            IF k \in lo..hi THEN out.leads[k - lo + 1] ELSE scLeads[k]]
           /\ scCall' = [op |-> "batch", lo |-> lo, hi |-> hi, response |-> response,
                         singles |-> singles, before |-> scLeads,
                         fallback |-> out.fallback]
           /\ scCalls' = [batch |-> scCalls.batch + 1,
                          single |-> scCalls.single + Len(singles)]
    /\ scPos' = Advance(scPos, scBatchSize)
    /\ UNCHANGED <<scConfigured, scBatchSize, scThreshold, scUseBatch, scMock, scInput,
                   scHigh>>

\* one iteration of the individual loop of score_leads: score_lead on leads[i]
ScoreLead(response) ==
    /\ SingleTurn
    /\ LET k == scPos + 1
       IN  /\ scLeads' = [scLeads EXCEPT ![k] = score_lead(scLeads[k], response)]
           /\ scCall' = [op |-> "single", lo |-> k, hi |-> k, response |-> response,
                         singles |-> <<>>, before |-> scLeads, fallback |-> FALSE]
           /\ scCalls' = [scCalls EXCEPT !.single = @ + 1]
    /\ scPos' = Advance(scPos, 1)
    /\ UNCHANGED <<scConfigured, scBatchSize, scThreshold, scUseBatch, scMock, scInput,
                   scHigh>>

\* score_lead called on lead k of the list, outside score_leads
ScoreLeadDirect(k, response) ==
    /\ scPos = 0 /\ scCall.op = "none"
    /\ k \in 1..Len(scLeads)
    /\ ~scConfigured => response = RNone
    /\ scLeads' = [scLeads EXCEPT ![k] = IF ~scConfigured THEN scLeads[k]
                                         ELSE score_lead(scLeads[k], response)]
    /\ scCall' = [op |-> "score_lead", lo |-> k, hi |-> k, response |-> response,
                  singles |-> <<>>, before |-> scLeads, fallback |-> FALSE]
    /\ scCalls' = IF scConfigured THEN [scCalls EXCEPT !.single = @ + 1] ELSE scCalls
    /\ UNCHANGED <<scConfigured, scBatchSize, scThreshold, scUseBatch, scMock, scInput,
                   scPos, scHigh>>

\* the scores a lead can come to filter_high_signal with: Optional[int]
Scores == {None} \cup {IntVal(n) : n \in {SIGNAL_THRESHOLD - 2, SIGNAL_THRESHOLD,
                                         SIGNAL_THRESHOLD + 2}}

ScoredLeads(scores) ==
    [k \in 1..Len(scores) |-> [FreshLead(k) EXCEPT !.signal_score = scores[k]]]

\* a SignalScorer of some threshold and the list filter_high_signal is called
\* with
ThresholdInit ==
    /\ scConfigured = TRUE
    /\ scBatchSize = 1
    /\ scThreshold \in {SIGNAL_THRESHOLD - 2, SIGNAL_THRESHOLD}
    /\ scUseBatch = FALSE
    /\ scMock = <<>>
    /\ \E scores \in SeqsUpTo(Scores, MaxScored) : scInput = ScoredLeads(scores)
    /\ scLeads = scInput
    /\ scPos = -1
    /\ scCall = NoCall
    /\ scCalls = NoCalls
    /\ scHigh = <<>>

\* SignalScorer.filter_high_signal(leads)
FilterHighSignal ==
    /\ scCall.op = "none"
    /\ scHigh' = filter_high_signal(scLeads, scThreshold)
    /\ scCall' = [NoCall EXCEPT !.op = "filter_high_signal", !.before = scLeads]
    /\ UNCHANGED <<scConfigured, scBatchSize, scThreshold, scUseBatch, scMock, scInput,
                   scLeads, scPos, scCalls>>

\* the values the prompt asks the backend for: a score of 1-10, a tier, one
\* of six categories
SCORE_RANGE == 1..10

SIGNAL_TYPES == {"HIGH", "MEDIUM", "LOW"}

CATEGORIES == {"Speaking Anxiety", "Practice Gap", "Immersion Prep",
               "Plateau Frustration", "App Fatigue", "General Learning"}

\* JSON objects whose values are not what the prompt asks for: json.loads
\* accepts any number, string or null under any key
OffPromptPayloads ==
    { [score |-> IntVal(11), signal_type |-> StrVal("HIGH"), category |-> StrVal("Practice Gap")],
      [score |-> IntVal(0), signal_type |-> StrVal("URGENT"), category |-> StrVal("Other")],
      [score |-> StrVal("8"), signal_type |-> StrVal("HIGH"), category |-> StrVal("Practice Gap")],
      [score |-> None, signal_type |-> StrVal("LOW"), category |-> StrVal("App Fatigue")] }

AnyPayloads == Payloads \cup OffPromptPayloads

\* lead.signal_score >= self.threshold raises TypeError when the score is a
\* string
filter_high_signal_raises(leads) ==
    \E k \in 1..Len(leads) : leads[k].signal_score.t = "str"

\* scorer.filter_high_signal(leads) after score_leads has returned
ThresholdGate ==
    /\ scPos = -1
    /\ scCall.op \notin {"filter_high_signal", "filter_high_signal.raised"}
    /\ IF filter_high_signal_raises(scLeads)
       THEN /\ scHigh' = scHigh
            /\ scCall' = [NoCall EXCEPT !.op = "filter_high_signal.raised",
                                        !.before = scLeads]
       ELSE /\ scHigh' = filter_high_signal(scLeads, scThreshold)
            /\ scCall' = [NoCall EXCEPT !.op = "filter_high_signal", !.before = scLeads]
    /\ UNCHANGED <<scConfigured, scBatchSize, scThreshold, scUseBatch, scMock, scInput,
                   scLeads, scPos, scCalls>>

\* one response of each kind a call can get: none, a text that is no JSON,
\* an object; for a batch call also a scalar, an empty array, an array for
\* the first lead of the group only and an array for every lead of it
OnePayload ==
    [score |-> IntVal(8), signal_type |-> StrVal("HIGH"), category |-> StrVal("Pain Point")]

KindsOfSingle == {RNone, RGarbage, RObject(OnePayload)}

KindsOfBatch(lo, hi) ==
    {RNone, RGarbage, RScalar, RArray(<<>>), RArray(<<Item(ScoreIds[lo], OnePayload)>>),
     RArray([i \in 1..(hi - lo + 1) |-> Item(ScoreIds[lo + i - 1], OnePayload)])}

\* the group the next batch iteration takes
NextLo == scPos + 1

NextHi == IF scPos + scBatchSize < Len(scLeads) THEN scPos + scBatchSize ELSE Len(scLeads)

\* a deterministic backend: it answers for a lead, or for a group of leads in
\* any order, with the fields scMock gives the identifier
MockSingle(k) == RObject(scMock[k])

Bijections(S, T) == {f \in [S -> T] : \A a, b \in S : f[a] = f[b] => a = b}

MockBatch(lo, hi) ==
    {RArray([i \in 1..(hi - lo + 1) |-> Item(ScoreIds[f[i]], scMock[f[i]])]) :
        f \in Bijections(1..(hi - lo + 1), lo..hi)}

----------------------------------------------------------------------------
(* Response generator: analyzer/response_generator.py *)

BoolVal(b) == [t |-> "bool", v |-> b]

\* bool(value) of an Optional[bool]
Truthy(value) == value.t = "bool" /\ value.v

\* value is False
IsFalse(value) == value.t = "bool" /\ ~value.v

\* the JSON objects a worthiness response can be, by the two keys read; a
\* JSON null comes out of json.loads as None
WorthyObjects ==
    {[worthy |-> w, reason |-> r] :
        w \in {Absent, BoolVal(TRUE), BoolVal(FALSE), None},
        r \in {Absent, StrVal("given")}}

\* the responses the worthiness call can get
WorthyResponses ==
    {RNone, RGarbage, RScalar, RArray(<<>>)} \cup {RObject(p) : p \in WorthyObjects}

\* what client.generate returns for a draft: None or a text
DraftResponses == {None, StrVal("draft")}

\* the leads the threshold gate hands to the generator
HighSignalLeads(n) ==
    [k \in 1..n |-> [FreshLead(k) EXCEPT !.signal_score = IntVal(SIGNAL_THRESHOLD + 1),
                                         !.signal_type = StrVal("HIGH"),
                                         !.category = StrVal("Pain Point")]]

Verdict(worthy, reason) == [worthy |-> worthy, reason |-> StrVal(reason)]

\* mutant: a failed evaluation counts as not worthy
evaluate_defaults_to_not_worthy(configured, response) ==
    IF ~configured
    THEN Verdict(BoolVal(TRUE), "Skipped evaluation - API not configured")
    ELSE IF response.t = "none"
    THEN Verdict(BoolVal(FALSE), "Evaluation failed - defaulting to worthy")
    ELSE IF response.t = "garbage"
    THEN Verdict(BoolVal(FALSE), "Parse error - defaulting to worthy")
    ELSE IF response.t = "object"
    THEN [worthy |-> Get(response.p.worthy, BoolVal(TRUE)),
          reason |-> Get(response.p.reason, StrVal("No reason provided"))]
    ELSE Verdict(BoolVal(FALSE), "Error - defaulting to worthy")

\* ResponseGenerator.evaluate_comment_worthy: (worthy, reason)
evaluate_comment_worthy(configured, response) ==
    IF ~configured
    THEN Verdict(BoolVal(TRUE), "Skipped evaluation - API not configured")
    ELSE IF response.t = "none"
    THEN Verdict(BoolVal(TRUE), "Evaluation failed - defaulting to worthy")
    ELSE IF response.t = "garbage"
    THEN Verdict(BoolVal(TRUE), "Parse error - defaulting to worthy")
    ELSE IF response.t = "object"
    THEN [worthy |-> Get(response.p.worthy, BoolVal(TRUE)),
          reason |-> Get(response.p.reason, StrVal("No reason provided"))]
    ELSE Verdict(BoolVal(TRUE), "Error - defaulting to worthy")

\* generate_public_draft / generate_dm_draft
generate_draft(configured, response) == IF configured THEN response ELSE None

NoInference == [worthy |-> 0, public |-> 0, dm |-> 0]

\* mutant: the drafts are generated whatever the verdict
generate_responses_always_drafts(configured, require, lead, worthy, public, dm) ==
    IF ~configured THEN [lead |-> lead, calls |-> NoInference]
    ELSE LET verdict == evaluate_comment_worthy(configured, worthy)
             judged  == IF require
                        THEN [lead EXCEPT !.comment_worthy = verdict.worthy,
                                          !.comment_worthy_reason = verdict.reason]
                        ELSE lead
         IN  [lead |-> [judged EXCEPT !.public_draft = generate_draft(configured, public),
                                      !.dm_draft = generate_draft(configured, dm)],
              calls |-> [worthy |-> IF require THEN 1 ELSE 0, public |-> 1, dm |-> 1]]

\* ResponseGenerator.generate_responses: the lead after the call and the
\* inference calls made; worthy, public and dm are what the calls get
generate_responses(configured, require, lead, worthy, public, dm) ==
    IF ~configured THEN [lead |-> lead, calls |-> NoInference]
    ELSE LET verdict == evaluate_comment_worthy(configured, worthy)
             judged  == IF require
                        THEN [lead EXCEPT !.comment_worthy = verdict.worthy,
                                          !.comment_worthy_reason = verdict.reason]
                        ELSE lead
         IN  IF require /\ ~Truthy(verdict.worthy)
             THEN [lead |-> judged, calls |-> [worthy |-> 1, public |-> 0, dm |-> 0]]
             ELSE [lead |-> [judged EXCEPT !.public_draft = generate_draft(configured, public),
                                           !.dm_draft = generate_draft(configured, dm)],
                   calls |-> [worthy |-> IF require THEN 1 ELSE 0,
                              public |-> 1, dm |-> 1]]

NoGenerate == [op |-> "none", k |-> 0, worthy |-> RNone, calls |-> NoInference,
               before |-> <<>>, skipped |-> 0]

\* a ResponseGenerator whose two settings are set, and the list
\* generate_responses_batch is called with
GeneratorInit ==
    /\ rgConfigured \in BOOLEAN
    /\ rgRequireWorthy \in BOOLEAN
    /\ \E n \in 0..MaxDrafted : rgInput = HighSignalLeads(n)
    /\ rgLeads = rgInput
    /\ rgPos = 0
    /\ rgSkipped = 0
    /\ rgCall = NoGenerate

\* generate_responses_batch returns without a loop iteration: the client is
\* not configured, or the list is empty
GenerateBatchReturnsEarly ==
    /\ rgPos = 0
    /\ ~rgConfigured \/ rgLeads = <<>>
    /\ rgPos' = -1
    /\ UNCHANGED <<rgConfigured, rgRequireWorthy, rgInput, rgLeads, rgSkipped, rgCall>>

GenerateTurn == rgPos >= 0 /\ rgConfigured /\ rgPos < Len(rgLeads)

\* one iteration of the loop of generate_responses_batch:
\* generate_responses(lead), then the skipped count
GenerateStep(worthy, public, dm) ==
    /\ GenerateTurn
    /\ LET k   == rgPos + 1
           out == generate_responses(rgConfigured, rgRequireWorthy, rgLeads[k],
                                     worthy, public, dm)
       IN  /\ out.calls.worthy = 0 => worthy = RNone
           /\ out.calls.public = 0 => public = None
           /\ out.calls.dm = 0 => dm = None
           /\ rgLeads' = [rgLeads EXCEPT ![k] = out.lead]
           /\ rgSkipped' = IF IsFalse(out.lead.comment_worthy)
                           THEN rgSkipped + 1 ELSE rgSkipped
           /\ rgCall' = [op |-> "generate_responses", k |-> k, worthy |-> worthy,
                         calls |-> out.calls, before |-> rgLeads,
                         skipped |-> rgSkipped]
           /\ rgPos' = IF k < Len(rgLeads) THEN k ELSE -1
    /\ UNCHANGED <<rgConfigured, rgRequireWorthy, rgInput>>

\* generate_responses called on lead k of the list, outside
\* generate_responses_batch
GenerateResponsesDirect(k, worthy, public, dm) ==
    /\ rgPos = 0 /\ rgCall.op = "none"
    /\ k \in 1..Len(rgLeads)
    /\ LET out == generate_responses(rgConfigured, rgRequireWorthy, rgLeads[k],
                                     worthy, public, dm)
       IN  /\ out.calls.worthy = 0 => worthy = RNone
           /\ out.calls.public = 0 => public = None
           /\ out.calls.dm = 0 => dm = None
           /\ rgLeads' = [rgLeads EXCEPT ![k] = out.lead]
           /\ rgCall' = [op |-> "direct", k |-> k, worthy |-> worthy,
                         calls |-> out.calls, before |-> rgLeads,
                         skipped |-> rgSkipped]
    /\ UNCHANGED <<rgConfigured, rgRequireWorthy, rgInput, rgPos, rgSkipped>>

----------------------------------------------------------------------------
(* Inference client: analyzer/gemini_client.py *)

\* The tokens of a completion text: brackets, blank, "fence" for the
\* three backquotes of a code fence, and
\* "x" for any other character
JsonAlphabet == {"{", "}", "[", "]", " ", "fence", "x"}

Texts == SeqsUpTo(JsonAlphabet, MaxTextLen)

Text(v) == [t |-> "text", v |-> v]

Opening == {"{", "["}

Closing == {"}", "]"}

\* str.strip()
Strip(text) ==
    LET solid == {i \in 1..Len(text) : text[i] # " "}
    IN  IF solid = {} THEN <<>>
        ELSE SubSeq(text, Min(solid), CHOOSE i \in solid : \A j \in solid : j <= i)

\* text[from..] is blanks followed by a fence
BlanksThenFence(text, from) ==
    \E f \in from..Len(text) :
        /\ text[f] = "fence"
        /\ \A i \in from..(f - 1) : text[i] = " "

\* The search for a fenced block, fence (?:json)?\s*([\[\{].*?[\]\}])\s* fence
\* with re.DOTALL: the matches of the group as <<fence, first, last>> positions
FencedMatches(text) ==
    {m \in (1..Len(text)) \X (1..Len(text)) \X (1..Len(text)) :
        /\ text[m[1]] = "fence"
        /\ m[1] < m[2] /\ m[2] < m[3]
        /\ \A i \in (m[1] + 1)..(m[2] - 1) : text[i] = " "
        /\ text[m[2]] \in Opening
        /\ text[m[3]] \in Closing
        /\ BlanksThenFence(text, m[3] + 1)}

\* the match the search returns: the leftmost fence, then the shortest group
FencedGroup(text) ==
    LET ms    == FencedMatches(text)
        fence == Min({m[1] : m \in ms})
        first == Min({m[2] : m \in {n \in ms : n[1] = fence}})
        last  == Min({m[3] : m \in {n \in ms : n[1] = fence /\ n[2] = first}})
    IN  SubSeq(text, first, last)

\* re.search(r"([\[\{].*[\]\}])", text, re.DOTALL): from the first opening
\* bracket to the last closing bracket after it
GreedyMatches(text) ==
    {m \in (1..Len(text)) \X (1..Len(text)) :
        /\ m[1] < m[2]
        /\ text[m[1]] \in Opening
        /\ text[m[2]] \in Closing}

GreedyGroup(text) ==
    LET ms    == GreedyMatches(text)
        first == Min({m[1] : m \in ms})
        last  == CHOOSE j \in {m[2] : m \in ms} : \A m \in ms : m[2] <= j
    IN  SubSeq(text, first, last)

\* the extraction of generate_json on a non-empty completion text
ExtractJson(raw) ==
    LET text == Strip(raw)
    IN  IF text # <<>> /\ text[1] \in Opening THEN text
        ELSE IF FencedMatches(text) # {} THEN FencedGroup(text)
        ELSE IF GreedyMatches(text) # {} THEN GreedyGroup(text)
        ELSE text

\* What the HTTP request of _make_request comes to: a completion text, a body
\* without candidates or parts, an HTTPError, or any other exception
\* (transport error, timeout, a body that is no JSON)
Outcomes ==
    {[t |-> "no_candidates"], [t |-> "http_error"], [t |-> "error"]}
        \cup {Text(v) : v \in Texts}

\* mutant: the request is made without looking at the API key
make_request_without_key_check(configured, outcome) ==
    IF outcome.t = "text" THEN [result |-> outcome, requests |-> 1]
    ELSE [result |-> None, requests |-> 1]

\* GeminiClient._make_request: what it returns and the requests it made
make_request(configured, outcome) ==
    IF ~configured THEN [result |-> None, requests |-> 0]
    ELSE IF outcome.t = "text" THEN [result |-> outcome, requests |-> 1]
    ELSE [result |-> None, requests |-> 1]

\* GeminiClient.generate
generate(configured, outcome) == make_request(configured, outcome)

\* GeminiClient.generate_json
generate_json(configured, outcome) ==
    LET made == make_request(configured, outcome)
    IN  IF made.result = None \/ made.result.v = <<>>
        THEN [result |-> None, requests |-> made.requests]
        ELSE [result |-> Text(ExtractJson(made.result.v)), requests |-> made.requests]

\* the outcomes a call can meet: a client without key makes no request
OutcomesOf(configured) == IF configured THEN Outcomes ELSE {[t |-> "error"]}

NoClientCall == [op |-> "none", outcome |-> [t |-> "error"], result |-> None]

ClientOps == {"_make_request", "generate", "generate_json"}

\* a GeminiClient with or without an API key
ClientInit ==
    /\ gcConfigured \in BOOLEAN
    /\ gcNetwork = 0
    /\ gcCall = NoClientCall

\* the client has not been called yet
ClientTurn == gcCall.op = "none"

\* one call of the client
ClientCall(op, outcome) ==
    /\ ClientTurn
    /\ LET out == IF op = "generate_json" THEN generate_json(gcConfigured, outcome)
                  ELSE IF op = "generate" THEN generate(gcConfigured, outcome)
                  ELSE make_request(gcConfigured, outcome)
       IN  /\ gcNetwork' = gcNetwork + out.requests
           /\ gcCall' = [op |-> op, outcome |-> outcome, result |-> out.result]
    /\ UNCHANGED gcConfigured

----------------------------------------------------------------------------
(* Orchestrator: main.py, run_scout with use_sheets left at its default *)

\* the default batch_size of a SignalScorer
BATCH_SIZE == 5

\* the fields of GeminiConfig
GEMINI_CONFIG_FIELDS == {"api_key", "model", "signal_threshold"}

\* the attributes of gemini_config ResponseGenerator.__init__ reads
GENERATOR_SETTINGS == {"response_model", "require_comment_worthy"}

\* ResponseGenerator(): reading an attribute the configuration object does
\* not have raises AttributeError
ConstructorRaises == ~(GENERATOR_SETTINGS \subseteq GEMINI_CONFIG_FIELDS)

\* the documents of a feed, by what the filter makes of them
Kinds == {"passing", "excluded", "deleted", "no_trigger"}

RunPost(k, kind) ==
    [id |-> ScoreIds[k], subreddit |-> "French",
     author |-> IF kind = "deleted" THEN DELETED ELSE "u1",
     title |-> IF kind = "no_trigger" THEN <<>> ELSE TRIGGER_KEYWORDS[1],
     selftext |-> IF kind = "excluded" THEN EXCLUDE_KEYWORDS[1] ELSE <<>>,
     permalink |-> Permalink("French", ScoreIds[k])]

FeedOf(kinds) == [k \in 1..Len(kinds) |-> RunPost(k, kinds[k])]

\* the feed of the end-to-end run: five documents, one with an exclusion
\* keyword, one by a deleted author, three that pass
EndToEndFeed == FeedOf(<<"passing", "excluded", "passing", "deleted", "passing">>)

Feeds == {FeedOf(kinds) : kinds \in SeqsUpTo(Kinds, MaxRunFeed)} \cup {EndToEndFeed}

\* KeywordFilter(): the default settings
DEFAULT_FILTER == [require_trigger |-> TRUE, exclude_on_match |-> TRUE]

RECURSIVE filter_posts(_, _, _)
\* list(keyword_filter.filter_posts(iter(posts))): the counters and the leads
filter_posts(cfg, st, posts) ==
    IF posts = <<>> THEN [stats |-> st, leads |-> <<>>]
    ELSE LET out  == filter_post(cfg, st, Head(posts))
             rest == filter_posts(cfg, out.stats, Tail(posts))
         IN  [stats |-> rest.stats,
              leads |-> IF out.result.passed
                        THEN <<from_post(Head(posts), out.result.matched_triggers)>>
                                 \o rest.leads
                        ELSE rest.leads]

\* what the backend answers about one lead: nothing, a score below the
\* threshold, a score above it
RunAnswers == {RNone} \cup {RObject(p) : p \in {q \in Payloads : q.score.t = "int"}}

\* the response of the one batch call for the leads: the array of the
\* answers, or nothing when an answer is missing
BatchAnswer(leads, answers) ==
    IF \A k \in 1..Len(leads) : answers[k].t = "object"
    THEN RArray([k \in 1..Len(leads) |-> Item(leads[k].post_id, answers[k].p)])
    ELSE RNone

\* scorer.score_leads(leads) on a configured client and a non-empty list of
\* at most batch_size leads: one group, or one score_lead call
score_leads(leads, answers) ==
    IF Len(leads) > 1
    THEN score_batch(leads, BatchAnswer(leads, answers), answers).leads
    ELSE <<score_lead(leads[1], answers[1])>>

\* the generate_json calls of that score_leads call
ScoreRequests(leads, answers) ==
    IF Len(leads) > 1 /\ FallsBack(BatchAnswer(leads, answers)) THEN 1 + Len(leads) ELSE 1

\* mutant: the analysis runs without looking at the API key
runs_analysis_without_key(analyze, leads, configured) == analyze /\ leads # <<>>

\* the two conditions around the analysis: analyze and leads, is_valid()
runs_analysis(analyze, leads, configured) == analyze /\ leads # <<>> /\ configured

NoRunCalls == [scorer |-> 0, generator |-> 0, inference |-> 0]

NoReport == [posts_fetched |-> -1]

\* the arguments and the environment of the runs, and the first run at its
\* start
RunInit ==
    /\ ruConfigured \in BOOLEAN
    /\ ruAnalyze \in BOOLEAN
    /\ ruFeed \in Feeds
    /\ ruRun = 1
    /\ ruStage = "start"
    /\ ruTrace = <<>>
    /\ ruPosts = <<>>
    /\ ruLeads = <<>>
    /\ ruHigh = <<>>
    /\ ruStats = ZeroStats
    /\ ruAnswers = <<>>
    /\ ruCalls = NoRunCalls
    /\ ruReport = NoReport

\* posts = list(client.get_new_posts(subreddits, limit=limit))
RunFetch ==
    /\ ruStage = "start"
    /\ ruPosts' = ruFeed
    /\ ruStage' = "fetched"
    /\ ruTrace' = Append(ruTrace, "Fetch")
    /\ UNCHANGED <<ruConfigured, ruAnalyze, ruFeed, ruRun, ruLeads, ruHigh, ruStats,
                   ruAnswers, ruCalls, ruReport>>

\* leads = list(keyword_filter.filter_posts(iter(posts)))
RunFilter ==
    /\ ruStage = "fetched"
    /\ LET out == filter_posts(DEFAULT_FILTER, ZeroStats, ruPosts)
       IN  /\ ruLeads' = out.leads
           /\ ruStats' = out.stats
    /\ ruStage' = "filtered"
    /\ ruTrace' = Append(ruTrace, "Filter")
    /\ UNCHANGED <<ruConfigured, ruAnalyze, ruFeed, ruRun, ruPosts, ruHigh, ruAnswers,
                   ruCalls, ruReport>>

Analysing == ruStage = "filtered" /\ runs_analysis(ruAnalyze, ruLeads, ruConfigured)

\* scorer = SignalScorer(); leads = scorer.score_leads(leads);
\* high_signal_leads = scorer.filter_high_signal(leads)
RunScore(answers) ==
    /\ Analysing
    /\ Len(ruLeads) <= BATCH_SIZE
    /\ IF ruConfigured
       THEN /\ ruLeads' = score_leads(ruLeads, answers)
            /\ ruAnswers' = answers
            /\ ruCalls' = [ruCalls EXCEPT !.scorer = @ + 1,
                                          !.inference = @ + ScoreRequests(ruLeads, answers)]
       ELSE /\ answers = [k \in 1..Len(ruLeads) |-> RNone]
            /\ ruCalls' = [ruCalls EXCEPT !.scorer = @ + 1]
            /\ UNCHANGED <<ruLeads, ruAnswers>>
    /\ ruHigh' = filter_high_signal(ruLeads', SIGNAL_THRESHOLD)
    /\ ruStage' = "scored"
    /\ ruTrace' = Append(ruTrace, "Score")
    /\ UNCHANGED <<ruConfigured, ruAnalyze, ruFeed, ruRun, ruPosts, ruStats, ruReport>>

\* generator = ResponseGenerator(): the constructor raises, and the exception
\* leaves run_scout
RunGenerate ==
    /\ ruStage = "scored" /\ ruHigh # <<>>
    /\ ConstructorRaises
    /\ ruCalls' = [ruCalls EXCEPT !.generator = @ + 1]
    /\ ruStage' = "raised"
    /\ ruTrace' = Append(ruTrace, "Generate")
    /\ UNCHANGED <<ruConfigured, ruAnalyze, ruFeed, ruRun, ruPosts, ruLeads, ruHigh,
                   ruStats, ruAnswers, ruReport>>

Persisting ==
    \/ ruStage = "filtered" /\ ~runs_analysis(ruAnalyze, ruLeads, ruConfigured)
    \/ ruStage = "scored" /\ ruHigh = <<>>

\* storage.save_leads(leads) when there are leads, and the statistics returned
RunPersist ==
    /\ Persisting
    /\ LET file == EnsuredCsv
           out  == IF ruLeads # <<>> THEN DedupBatch(ruLeads, CsvExistingIds(TRUE, file))
                   ELSE [rows |-> <<>>, saved |-> 0, skipped |-> 0]
       IN  /\ IF ruLeads # <<>>
              THEN /\ csvExists' = TRUE
                   /\ csvRows' = file \o out.rows
                   /\ sinkCall' = CallRecord("csv.save_leads", ruLeads, out.saved,
                                             out.skipped, csvRows, file \o out.rows)
              ELSE UNCHANGED <<csvExists, csvRows, sinkCall>>
           /\ ruReport' = [posts_fetched |-> Len(ruPosts), leads_found |-> Len(ruLeads),
                           high_signal_leads |-> Len(ruHigh),
                           leads_saved |-> out.saved, leads_skipped |-> out.skipped,
                           filter_stats |-> ruStats]
    /\ ruStage' = "done"
    /\ ruTrace' = Append(ruTrace, "Persist")
    /\ UNCHANGED <<sheetsConfigured, sheetExists, sheetRows, csvPending>>
    /\ UNCHANGED <<ruConfigured, ruAnalyze, ruFeed, ruRun, ruPosts, ruLeads, ruHigh,
                   ruStats, ruAnswers, ruCalls>>

\* the caller starts the next run, with the same arguments, feed and store
RunAgain ==
    /\ ruStage \in {"done", "raised"}
    /\ ruRun < MaxRuns
    /\ ruRun' = ruRun + 1
    /\ ruStage' = "start"
    /\ ruTrace' = <<>>
    /\ ruPosts' = <<>>
    /\ ruLeads' = <<>>
    /\ ruHigh' = <<>>
    /\ ruStats' = ZeroStats
    /\ ruAnswers' = <<>>
    /\ ruCalls' = NoRunCalls
    /\ ruReport' = NoReport
    /\ UNCHANGED <<ruConfigured, ruAnalyze, ruFeed>>

----------------------------------------------------------------------------
(* Scheduler: scheduler.py *)

\* main after the signal handlers are installed
SchedulerInit ==
    /\ schPc = "start"
    /\ running = TRUE
    /\ runOnce \in BOOLEAN
    /\ run_count = 0
    /\ success_count = 0
    /\ success = FALSE
    /\ sleepLeft = 0

\* signal_handler, on SIGINT or SIGTERM, between any two steps of main
signal_handler ==
    /\ schPc \notin {"stopped", "exited"}
    /\ running' = FALSE
    /\ UNCHANGED <<schPc, runOnce, run_count, success_count, success, sleepLeft>>

\* --run-once: one run_scout call and sys.exit
RunOnce(result) ==
    /\ schPc = "start" /\ runOnce
    /\ success' = result
    /\ schPc' = "exited"
    /\ UNCHANGED <<running, runOnce, run_count, success_count, sleepLeft>>

\* main reaches its loop
EnterLoop ==
    /\ schPc = "start" /\ ~runOnce
    /\ schPc' = "test"
    /\ UNCHANGED <<running, runOnce, run_count, success_count, success, sleepLeft>>

\* while running:
LoopTest ==
    /\ schPc = "test"
    /\ running => run_count < MaxSchedulerRuns
    /\ schPc' = IF running THEN "body" ELSE "stopped"
    /\ UNCHANGED <<running, runOnce, run_count, success_count, success, sleepLeft>>

\* run_count += 1 and the log lines before run_scout
StartRun ==
    /\ schPc = "body"
    /\ run_count' = run_count + 1
    /\ schPc' = "scout"
    /\ UNCHANGED <<running, runOnce, success_count, success, sleepLeft>>

\* run_scout: the subprocess returns 0 (True), returns another code, times
\* out after thirty minutes or cannot be started (False)
RunScout(result) ==
    /\ schPc = "scout"
    /\ success' = result
    /\ schPc' = "after"
    /\ UNCHANGED <<running, runOnce, run_count, success_count, sleepLeft>>

\* if success: success_count += 1
CountSuccess ==
    /\ schPc = "after"
    /\ success_count' = IF success THEN success_count + 1 ELSE success_count
    /\ schPc' = "break_test"
    /\ UNCHANGED <<running, runOnce, run_count, success, sleepLeft>>

\* if not running: break; otherwise sleep_end is set
BreakTest ==
    /\ schPc = "break_test"
    /\ IF running
       THEN schPc' = "sleep" /\ sleepLeft' = SleepSteps
       ELSE schPc' = "stopped" /\ sleepLeft' = sleepLeft
    /\ UNCHANGED <<running, runOnce, run_count, success_count, success>>

\* while running and time.time() < sleep_end: time.sleep(min(10, ...))
SleepStep ==
    /\ schPc = "sleep"
    /\ IF running /\ sleepLeft > 0
       THEN schPc' = schPc /\ sleepLeft' = sleepLeft - 1
       ELSE schPc' = "test" /\ sleepLeft' = sleepLeft
    /\ UNCHANGED <<running, runOnce, run_count, success_count, success>>

----------------------------------------------------------------------------
(* Action CLI: action.py *)

\* a row of data/leads.csv as CSVStorage wrote it; sent and sent_date are
\* empty while the file has no such columns
StoredLead(k, worthy, draft) ==
    [post_url |-> direct_url(ScorePost(k)), comment_worthy |-> worthy,
     public_draft |-> draft, sent |-> "", sent_date |-> ""]

\* the files CSVStorage leaves: CSV_COLUMNS has no sent and no sent_date
StoredFiles ==
    {[sent_columns |-> FALSE,
      rows |-> [k \in 1..n |-> StoredLead(k, worthy[k], draft[k])]] :
        n \in 0..MaxStored,
        worthy \in [1..MaxStored -> {"yes", "no"}],
        draft \in [1..MaxStored -> {"", "d"}]}

\* load_leads: csv.DictReader gives every row the columns of the header
load_leads(file) ==
    [k \in 1..Len(file.rows) |->
        [row |-> file.rows[k], has_sent_keys |-> file.sent_columns]]

\* args.post_id in post_url
Contains(post_id, post_url) == \E i \in 1..Len(post_url) : post_url[i] = post_id

\* the first lead of the loop of cmd_sent whose URL has the id, 0 if none
FirstMatch(post_id, leads) ==
    LET at == {k \in 1..Len(leads) : Contains(post_id, leads[k].row.post_url)}
    IN  IF at = {} THEN 0 ELSE Min(at)

\* lead["sent"] = "yes"; lead["sent_date"] = now
Marked(lead, now) ==
    [row |-> [lead.row EXCEPT !.sent = "yes", !.sent_date = now],
     has_sent_keys |-> TRUE]

\* action.save_leads on a non-empty list: fieldnames are the keys of the
\* first lead; the file is truncated, the header written, and writerows
\* raises ValueError at the first lead that has a key the header lacks
save_leads(leads) ==
    LET columns == leads[1].has_sent_keys
        bad     == {k \in 1..Len(leads) : leads[k].has_sent_keys /\ ~columns}
        upto    == IF bad = {} THEN Len(leads) ELSE Min(bad) - 1
    IN  [file |-> [sent_columns |-> columns,
                   rows |-> [k \in 1..upto |-> leads[k].row]],
         raised |-> bad # {}]

\* get_pending_leads, on the rows
IsPending(row) ==
    /\ row.comment_worthy = "yes"
    /\ row.public_draft # ""
    /\ row.sent \notin {"yes", "true", "1"}

NoSent == [op |-> "none", post_id |-> "", before |-> <<>>, now |-> "", raised |-> FALSE]

ActionInit ==
    /\ acFile \in StoredFiles
    /\ acCall = NoSent

\* what --sent is given: nothing, the id of a row, an id of no row, a text
\* every URL holds
SentArgs == {"", ScoreIds[1], ScoreIds[2], ScoreIds[3], ForeignId, "reddit.com"}

\* cmd_sent(args) at the minute now
CmdSent(post_id, now) ==
    LET leads == load_leads(acFile)
        k     == FirstMatch(post_id, leads)
    IN  IF post_id = "" \/ k = 0
        THEN /\ acFile' = acFile
             /\ acCall' = [op |-> "sent", post_id |-> post_id, before |-> acFile.rows,
                           now |-> now, raised |-> FALSE]
        ELSE LET out == save_leads([leads EXCEPT ![k] = Marked(leads[k], now)])
             IN  /\ acFile' = out.file
                 /\ acCall' = [op |-> "sent", post_id |-> post_id,
                               before |-> acFile.rows, now |-> now,
                               raised |-> out.raised]

----------------------------------------------------------------------------
(* Specifications: one per component, the other components idle *)

SinkIdle ==
    /\ csvExists = FALSE
    /\ csvRows = <<>>
    /\ sheetsConfigured = FALSE
    /\ sheetExists = FALSE
    /\ sheetRows = <<>>
    /\ sinkCall = [op |-> "none", leads |-> <<>>, saved |-> 0, skipped |-> 0,
                   before |-> <<>>, written |-> <<>>]
    /\ csvPending = NoPending

ScorerIdle ==
    /\ scConfigured = FALSE
    /\ scBatchSize = 1
    /\ scThreshold = SIGNAL_THRESHOLD
    /\ scUseBatch = FALSE
    /\ scMock = <<>>
    /\ scInput = <<>>
    /\ scLeads = <<>>
    /\ scPos = -1
    /\ scCall = NoCall
    /\ scCalls = NoCalls
    /\ scHigh = <<>>

SchedulerIdle ==
    /\ schPc = "idle"
    /\ running = TRUE
    /\ runOnce = FALSE
    /\ run_count = 0
    /\ success_count = 0
    /\ success = FALSE
    /\ sleepLeft = 0

ActionIdle ==
    /\ acFile = [sent_columns |-> FALSE, rows |-> <<>>]
    /\ acCall = NoSent

RunIdle ==
    /\ ruConfigured = FALSE
    /\ ruAnalyze = FALSE
    /\ ruFeed = <<>>
    /\ ruRun = 1
    /\ ruStage = "idle"
    /\ ruTrace = <<>>
    /\ ruPosts = <<>>
    /\ ruLeads = <<>>
    /\ ruHigh = <<>>
    /\ ruStats = ZeroStats
    /\ ruAnswers = <<>>
    /\ ruCalls = NoRunCalls
    /\ ruReport = NoReport

ClientIdle ==
    /\ gcConfigured = FALSE
    /\ gcNetwork = 0
    /\ gcCall = NoClientCall

GeneratorIdle ==
    /\ rgConfigured = FALSE
    /\ rgRequireWorthy = FALSE
    /\ rgInput = <<>>
    /\ rgLeads = <<>>
    /\ rgPos = -1
    /\ rgSkipped = 0
    /\ rgCall = NoGenerate

FilterIdle ==
    /\ filterCfg = [require_trigger |-> TRUE, exclude_on_match |-> TRUE]
    /\ stats = ZeroStats
    /\ statsBefore = ZeroStats
    /\ lastPost = NoPost
    /\ filterResult = NoResult
    /\ startStats = ZeroStats
    /\ otherStats = ZeroStats
    /\ consumed = <<>>
    /\ yielded = <<>>

\* filter_post as a function of one document
FilterPostInit == FilterInit /\ SinkIdle /\ ScorerIdle /\ GeneratorIdle /\ ClientIdle /\ RunIdle /\ SchedulerIdle /\ ActionIdle

FilterPostNext == \E post \in Posts : FilterPost(post) /\ UNCHANGED <<sinkVars, scorerVars, generatorVars, clientVars, runVars, schedulerVars, actionVars>>

SpecFilterPost == FilterPostInit /\ [][FilterPostNext]_vars

\* filter_posts over an input of documents
FilterStreamInit == FilterInit /\ SinkIdle /\ ScorerIdle /\ GeneratorIdle /\ ClientIdle /\ RunIdle /\ SchedulerIdle /\ ActionIdle

FilterStreamNext == \E post \in FeedPosts : FilterPostsStep(post) /\ UNCHANGED <<sinkVars, scorerVars, generatorVars, clientVars, runVars, schedulerVars, actionVars>>

SpecFilter == FilterStreamInit /\ [][FilterStreamNext]_vars

\* filter_post calls on two KeywordFilter instances, in any order
TwoFiltersNext ==
    \/ \E post \in FeedPosts : FilterPostsStep(post) /\ UNCHANGED <<sinkVars, scorerVars, generatorVars, clientVars, runVars, schedulerVars, actionVars>>
    \/ \E post \in FeedPosts : OtherFilterPost(post) /\ UNCHANGED <<sinkVars, scorerVars, generatorVars, clientVars, runVars, schedulerVars, actionVars>>

\* two instances just constructed
TwoFiltersInit == FilterStreamInit /\ stats = ZeroStats

SpecTwoFilters == TwoFiltersInit /\ [][TwoFiltersNext]_vars

\* the sinks under any sequence of calls
SinkSpecInit == SinkInit /\ FilterIdle /\ ScorerIdle /\ GeneratorIdle /\ ClientIdle /\ RunIdle /\ SchedulerIdle /\ ActionIdle

SinkSpecNext ==
    \/ \E leads \in Batches : CsvSaveLeads(leads) /\ UNCHANGED <<filterVars, scorerVars, generatorVars, clientVars, runVars, schedulerVars, actionVars>>
    \/ \E lead \in SinkLeads : CsvSaveLead(lead) /\ UNCHANGED <<filterVars, scorerVars, generatorVars, clientVars, runVars, schedulerVars, actionVars>>
    \/ \E leads \in Batches, readOk \in BOOLEAN, writeOk \in BOOLEAN :
           SheetsAppendLeads(leads, readOk, writeOk) /\ UNCHANGED <<filterVars, scorerVars, generatorVars, clientVars, runVars, schedulerVars, actionVars>>
    \/ \E lead \in SinkLeads, readOk \in BOOLEAN, writeOk \in BOOLEAN :
           SheetsAppendLead(lead, readOk, writeOk) /\ UNCHANGED <<filterVars, scorerVars, generatorVars, clientVars, runVars, schedulerVars, actionVars>>

SpecSink == SinkSpecInit /\ [][SinkSpecNext]_vars

\* the sinks under any sequence of calls, some of which fail
SinkFailingNext ==
    \/ SinkSpecNext
    \/ /\ Len(LeadRows(csvRows)) < MaxRows
       /\ \E leads \in Batches : \E n \in 0..(Len(leads) - 1) : CsvSaveLeadsRaising(leads, n)
       /\ UNCHANGED <<filterVars, scorerVars, generatorVars, clientVars, runVars, schedulerVars, actionVars>>

SpecSinkFailing == SinkSpecInit /\ [][SinkFailingNext]_vars

\* the CSV store under calls with leads of any subreddit
SinkAnySubNext ==
    \/ /\ Len(LeadRows(csvRows)) < MaxRows
       /\ \E leads \in SeqsUpTo(AnySubLeads, MaxBatch) : CsvSaveLeads(leads)
       /\ UNCHANGED <<filterVars, scorerVars, generatorVars, clientVars, runVars, schedulerVars, actionVars>>
    \/ /\ Len(LeadRows(csvRows)) < MaxRows
       /\ \E lead \in AnySubLeads : CsvSaveLead(lead)
       /\ UNCHANGED <<filterVars, scorerVars, generatorVars, clientVars, runVars, schedulerVars, actionVars>>

SpecSinkAnySub == SinkSpecInit /\ [][SinkAnySubNext]_vars

\* the CSV store under calls of this process and rows another process writes
\* between the steps of a call
SinkRaceNext ==
    \/ \E leads \in Batches : CsvSaveLeadsRead(leads) /\ UNCHANGED <<filterVars, scorerVars, generatorVars, clientVars, runVars, schedulerVars, actionVars>>
    \/ CsvSaveLeadsWrite /\ UNCHANGED <<filterVars, scorerVars, generatorVars, clientVars, runVars, schedulerVars, actionVars>>
    \/ \E lead \in SinkLeads : CsvSaveLeadRead(lead) /\ UNCHANGED <<filterVars, scorerVars, generatorVars, clientVars, runVars, schedulerVars, actionVars>>
    \/ CsvSaveLeadWrite /\ UNCHANGED <<filterVars, scorerVars, generatorVars, clientVars, runVars, schedulerVars, actionVars>>
    \/ \E lead \in SinkLeads : ExternalWrite(lead) /\ UNCHANGED <<filterVars, scorerVars, generatorVars, clientVars, runVars, schedulerVars, actionVars>>

SpecSinkRace == SinkSpecInit /\ [][SinkRaceNext]_vars

\* score_leads against a backend that may answer anything
ScoreInit == ScorerInit /\ scMock = <<>> /\ SinkIdle /\ FilterIdle /\ GeneratorIdle /\ ClientIdle /\ RunIdle /\ SchedulerIdle /\ ActionIdle

ScoreNext ==
    \/ ScoreLeadsReturnsEarly /\ UNCHANGED <<sinkVars, filterVars, generatorVars, clientVars, runVars, schedulerVars, actionVars>>
    \/ /\ BatchTurn
       /\ \E response \in BatchResponses(NextLo, NextHi),
             singles \in SeqsUpTo(SingleResponses, MaxBatchSize) :
              ScoreBatch(response, singles)
       /\ UNCHANGED <<sinkVars, filterVars, generatorVars, clientVars, runVars, schedulerVars, actionVars>>
    \/ /\ SingleTurn
       /\ \E response \in SingleResponses : ScoreLead(response)
       /\ UNCHANGED <<sinkVars, filterVars, generatorVars, clientVars, runVars, schedulerVars, actionVars>>

SpecScore == ScoreInit /\ [][ScoreNext]_vars

\* score_leads against a backend that gives one answer of each kind
ScoreCallsNext ==
    \/ ScoreLeadsReturnsEarly /\ UNCHANGED <<sinkVars, filterVars, generatorVars, clientVars, runVars, schedulerVars, actionVars>>
    \/ /\ BatchTurn
       /\ \E response \in KindsOfBatch(NextLo, NextHi),
             singles \in SeqsUpTo(KindsOfSingle, MaxBatchSize) :
              ScoreBatch(response, singles)
       /\ UNCHANGED <<sinkVars, filterVars, generatorVars, clientVars, runVars, schedulerVars, actionVars>>
    \/ /\ SingleTurn
       /\ \E response \in KindsOfSingle : ScoreLead(response)
       /\ UNCHANGED <<sinkVars, filterVars, generatorVars, clientVars, runVars, schedulerVars, actionVars>>

SpecScoreCalls == ScoreInit /\ [][ScoreCallsNext]_vars

\* score_leads against a deterministic backend
ScoreMockInit ==
    /\ ScorerInit
    /\ scConfigured
    /\ scMock \in [1..Len(scInput) -> Payloads]
    /\ SinkIdle /\ FilterIdle /\ GeneratorIdle /\ ClientIdle /\ RunIdle /\ SchedulerIdle /\ ActionIdle

ScoreMockNext ==
    \/ ScoreLeadsReturnsEarly /\ UNCHANGED <<sinkVars, filterVars, generatorVars, clientVars, runVars, schedulerVars, actionVars>>
    \/ /\ BatchTurn
       /\ \E response \in MockBatch(NextLo, NextHi) : ScoreBatch(response, <<>>)
       /\ UNCHANGED <<sinkVars, filterVars, generatorVars, clientVars, runVars, schedulerVars, actionVars>>
    \/ /\ SingleTurn
       /\ ScoreLead(MockSingle(scPos + 1))
       /\ UNCHANGED <<sinkVars, filterVars, generatorVars, clientVars, runVars, schedulerVars, actionVars>>

SpecScoreMock == ScoreMockInit /\ [][ScoreMockNext]_vars

\* filter_high_signal as a function of a list of leads
ThresholdSpecInit == ThresholdInit /\ SinkIdle /\ FilterIdle /\ GeneratorIdle /\ ClientIdle /\ RunIdle /\ SchedulerIdle /\ ActionIdle

ThresholdNext == FilterHighSignal /\ UNCHANGED <<sinkVars, filterVars, generatorVars, clientVars, runVars, schedulerVars, actionVars>>

SpecThreshold == ThresholdSpecInit /\ [][ThresholdNext]_vars

\* score_leads(leads, use_batch=False): the single-item path only
ScoreSingleInit ==
    /\ ScorerInit
    /\ ~scUseBatch
    /\ scMock = <<>>
    /\ SinkIdle /\ FilterIdle /\ GeneratorIdle /\ ClientIdle /\ RunIdle /\ SchedulerIdle /\ ActionIdle

ScoreSingleNext ==
    \/ ScoreLeadsReturnsEarly /\ UNCHANGED <<sinkVars, filterVars, generatorVars, clientVars, runVars, schedulerVars, actionVars>>
    \/ /\ SingleTurn
       /\ \E response \in SingleResponses : ScoreLead(response)
       /\ UNCHANGED <<sinkVars, filterVars, generatorVars, clientVars, runVars, schedulerVars, actionVars>>

SpecScoreSingle == ScoreSingleInit /\ [][ScoreSingleNext]_vars

\* score_leads(leads, use_batch=False) and the threshold gate, against a
\* backend that may put any JSON value under the keys
ScoreAnyNext ==
    \/ ScoreLeadsReturnsEarly /\ UNCHANGED <<sinkVars, filterVars, generatorVars, clientVars, runVars, schedulerVars, actionVars>>
    \/ /\ SingleTurn
       /\ \E p \in AnyPayloads : ScoreLead(RObject(p))
       /\ UNCHANGED <<sinkVars, filterVars, generatorVars, clientVars, runVars, schedulerVars, actionVars>>
    \/ ThresholdGate /\ UNCHANGED <<sinkVars, filterVars, generatorVars, clientVars, runVars, schedulerVars, actionVars>>

SpecScoreAny == ScoreSingleInit /\ [][ScoreAnyNext]_vars

\* generate_responses_batch against a backend that may answer anything
GenerateInit == GeneratorInit /\ SinkIdle /\ FilterIdle /\ ScorerIdle /\ ClientIdle /\ RunIdle /\ SchedulerIdle /\ ActionIdle

GenerateNext ==
    \/ GenerateBatchReturnsEarly /\ UNCHANGED <<sinkVars, filterVars, scorerVars, clientVars, runVars, schedulerVars, actionVars>>
    \/ /\ GenerateTurn
       /\ \E worthy \in WorthyResponses, public \in DraftResponses, dm \in DraftResponses :
              GenerateStep(worthy, public, dm)
       /\ UNCHANGED <<sinkVars, filterVars, scorerVars, clientVars, runVars, schedulerVars, actionVars>>

SpecGenerate == GenerateInit /\ [][GenerateNext]_vars

\* the inference client, one call
ClientSpecInit == ClientInit /\ SinkIdle /\ FilterIdle /\ ScorerIdle /\ GeneratorIdle /\ RunIdle /\ SchedulerIdle /\ ActionIdle

ClientSpecNext ==
    /\ ClientTurn
    /\ \E op \in ClientOps, outcome \in OutcomesOf(gcConfigured) :
        ClientCall(op, outcome) /\ UNCHANGED <<sinkVars, filterVars, scorerVars, generatorVars, runVars, schedulerVars, actionVars>>

SpecClient == ClientSpecInit /\ [][ClientSpecNext]_vars

\* a client without API key, and the scorer and the generator that hold it:
\* the calls of the client and the entry points of the two stages
UnconfiguredInit ==
    /\ ClientInit /\ ~gcConfigured
    /\ ScorerInit /\ ~scConfigured /\ scMock = <<>>
    /\ GeneratorInit /\ ~rgConfigured
    /\ SinkIdle /\ FilterIdle /\ RunIdle /\ SchedulerIdle /\ ActionIdle

UnconfiguredNext ==
    \/ /\ ClientTurn
       /\ \E op \in ClientOps, outcome \in OutcomesOf(gcConfigured) :
           ClientCall(op, outcome)
               /\ UNCHANGED <<sinkVars, filterVars, scorerVars, generatorVars, runVars, schedulerVars, actionVars>>
    \/ \E k \in 1..MaxLeads, response \in SingleResponses :
           ScoreLeadDirect(k, response)
               /\ UNCHANGED <<sinkVars, filterVars, generatorVars, clientVars, runVars, schedulerVars, actionVars>>
    \/ ScoreLeadsReturnsEarly /\ UNCHANGED <<sinkVars, filterVars, generatorVars, clientVars, runVars, schedulerVars, actionVars>>
    \/ \E k \in 1..MaxDrafted, worthy \in WorthyResponses,
             public \in DraftResponses, dm \in DraftResponses :
           GenerateResponsesDirect(k, worthy, public, dm)
               /\ UNCHANGED <<sinkVars, filterVars, scorerVars, clientVars, runVars, schedulerVars, actionVars>>
    \/ GenerateBatchReturnsEarly
           /\ UNCHANGED <<sinkVars, filterVars, scorerVars, clientVars, runVars, schedulerVars, actionVars>>

SpecUnconfigured == UnconfiguredInit /\ [][UnconfiguredNext]_vars

\* run_scout, run after run on a store that starts empty
RunSpecInit ==
    RunInit /\ SinkIdle /\ FilterIdle /\ ScorerIdle /\ GeneratorIdle /\ ClientIdle
        /\ SchedulerIdle /\ ActionIdle

Others == <<filterVars, scorerVars, generatorVars, clientVars, schedulerVars, actionVars>>

RunNext ==
    \/ RunFetch /\ UNCHANGED <<sinkVars, Others>>
    \/ RunFilter /\ UNCHANGED <<sinkVars, Others>>
    \/ /\ Analysing
       /\ \E answers \in [1..Len(ruLeads) -> RunAnswers] : RunScore(answers)
       /\ UNCHANGED <<sinkVars, Others>>
    \/ RunGenerate /\ UNCHANGED <<sinkVars, Others>>
    \/ RunPersist /\ UNCHANGED Others
    \/ RunAgain /\ UNCHANGED <<sinkVars, Others>>

SpecRun == RunSpecInit /\ [][RunNext]_vars

\* a run that is started goes on until it returns or raises
SpecRunFair == RunSpecInit /\ [][RunNext]_vars /\ WF_vars(RunNext)

\* the scheduler and the signals it gets
SchedulerSpecInit ==
    /\ SchedulerInit
    /\ SinkIdle /\ FilterIdle /\ ScorerIdle /\ GeneratorIdle /\ ClientIdle /\ RunIdle
    /\ ActionIdle

Rest == <<sinkVars, filterVars, scorerVars, generatorVars, clientVars, runVars, actionVars>>

SchedulerStep ==
    \/ \E result \in BOOLEAN : RunOnce(result) /\ UNCHANGED Rest
    \/ EnterLoop /\ UNCHANGED Rest
    \/ LoopTest /\ UNCHANGED Rest
    \/ StartRun /\ UNCHANGED Rest
    \/ \E result \in BOOLEAN : RunScout(result) /\ UNCHANGED Rest
    \/ CountSuccess /\ UNCHANGED Rest
    \/ BreakTest /\ UNCHANGED Rest
    \/ SleepStep /\ UNCHANGED Rest

SchedulerNext ==
    \/ SchedulerStep
    \/ signal_handler /\ UNCHANGED Rest

SpecScheduler == SchedulerSpecInit /\ [][SchedulerNext]_vars

\* main goes on while it can: run_scout ends, by its timeout at the latest,
\* and every sleep increment ends
SpecSchedulerFair == SchedulerSpecInit /\ [][SchedulerNext]_vars /\ WF_vars(SchedulerStep)

\* the action CLI on a leads file
ActionSpecInit ==
    /\ ActionInit
    /\ SinkIdle /\ FilterIdle /\ ScorerIdle /\ GeneratorIdle /\ ClientIdle /\ RunIdle
    /\ SchedulerIdle

ActionNext ==
    \E post_id \in SentArgs, now \in {"t1", "t2"} :
        CmdSent(post_id, now)
            /\ UNCHANGED <<sinkVars, filterVars, scorerVars, generatorVars, clientVars, runVars, schedulerVars>>

SpecAction == ActionSpecInit /\ [][ActionNext]_vars

----------------------------------------------------------------------------
(* Claims about the sinks *)

StoredIds(rows) == {rows[i].post_id : i \in 1..Len(rows)} \ {NoId}

NoDuplicateRows(rows) ==
    \A i, j \in 1..Len(rows) :
        (i < j /\ rows[i].kind = "lead" /\ rows[j].kind = "lead")
            => rows[i].post_id # rows[j].post_id

\* C1: after any sequence of save_leads / save_lead / append_leads /
\* append_lead calls, neither store holds two rows for the same candidate
\* identifier.
C1_NoDuplicateRows == NoDuplicateRows(csvRows) /\ NoDuplicateRows(sheetRows)

\* the part of C1 the CSV store keeps
C1_CsvNoDuplicateRows == NoDuplicateRows(csvRows)

\* the positions of a batch whose identifier is in the store already or
\* appeared earlier in the batch
DuplicatePositions(leads, before) ==
    {k \in 1..Len(leads) :
        \/ leads[k].post_id \in StoredIds(before)
        \/ \E j \in 1..(k - 1) : leads[j].post_id = leads[k].post_id}

IsBatchCall == sinkCall.op \in {"csv.save_leads", "sheets.append_leads"}

\* C2: a batch append skips (and counts as skipped) exactly the candidates
\* whose identifier is already stored or appeared earlier in the list, writes
\* every other candidate once (counted as saved), so saved + skipped is the
\* length of the list and saved is the number of rows added.
C2_BatchAppendCounts ==
    IsBatchCall =>
        LET dups == DuplicatePositions(sinkCall.leads, sinkCall.before)
        IN  /\ sinkCall.skipped = Cardinality(dups)
            /\ sinkCall.saved = Len(sinkCall.leads) - Cardinality(dups)
            /\ sinkCall.saved + sinkCall.skipped = Len(sinkCall.leads)
            /\ sinkCall.saved = Len(sinkCall.written)
            /\ \A k \in 1..Len(sinkCall.leads) :
                   k \notin dups =>
                       Cardinality({w \in 1..Len(sinkCall.written) :
                           sinkCall.written[w].post_id = sinkCall.leads[k].post_id}) = 1

\* the part of C2 that CSVStorage.save_leads keeps
C2_CsvBatchAppendCounts == (sinkCall.op = "csv.save_leads") => C2_BatchAppendCounts

----------------------------------------------------------------------------
(* Claims about the lexical filter *)

\* kw occurs in the lower-cased text, character by character
Occurs(kw, text) ==
    \E i \in 1..Len(text) :
        \A j \in 1..Len(kw) :
            /\ i + j - 1 <= Len(text)
            /\ LowerChar(text[i + j - 1]) = kw[j]

PresentIn(keywords, text) == {k \in 1..Len(keywords) : Occurs(keywords[k], text)}

\* the list holds exactly the keywords present in the text, each once
ExactlyThePresent(list, keywords, text) ==
    /\ Len(list) = Cardinality(PresentIn(keywords, text))
    /\ \A k \in PresentIn(keywords, text) :
           Cardinality({i \in 1..Len(list) : list[i] = keywords[k]}) = 1

Called == lastPost # NoPost

Grew(counter) == stats[counter] = statsBefore[counter] + 1

Same(counter) == stats[counter] = statsBefore[counter]

\* C3: a document whose author is "[deleted]" is rejected whatever its text
\* holds; deleted_author and total grow by one, no_trigger, excluded and
\* passed stay.
C3_DeletedAuthorRejected ==
    (Called /\ lastPost.author = DELETED) =>
        /\ ~filterResult.passed
        /\ filterResult.reason = "deleted_author"
        /\ Grew("deleted_author") /\ Grew("total")
        /\ Same("no_trigger") /\ Same("excluded") /\ Same("passed")
        /\ yielded = <<>>

C3_Witness ==
    /\ Called /\ lastPost.author = DELETED
    /\ PresentIn(TRIGGER_KEYWORDS, full_text(lastPost)) # {}
    /\ PresentIn(EXCLUDE_KEYWORDS, full_text(lastPost)) # {}
    /\ stats.deleted_author = 2

ExcludedWithoutTrigger ==
    /\ Called /\ lastPost.author # DELETED
    /\ PresentIn(EXCLUDE_KEYWORDS, full_text(lastPost)) # {}
    /\ PresentIn(TRIGGER_KEYWORDS, full_text(lastPost)) = {}

RejectedAsExcluded ==
    /\ ~filterResult.passed
    /\ filterResult.reason = "excluded"
    /\ ExactlyThePresent(filterResult.matched_excludes, EXCLUDE_KEYWORDS,
                         full_text(lastPost))
    /\ Grew("excluded") /\ Grew("total")
    /\ Same("no_trigger") /\ Same("passed") /\ Same("deleted_author")

\* C4 as stated: every document (author not deleted) with an exclusion
\* keyword and no trigger keyword is rejected as excluded, the matched
\* exclusion keywords recorded, no_trigger not incremented.
C4_ExclusionPrecedence == ExcludedWithoutTrigger => RejectedAsExcluded

\* C4 as amended: the same, for a filter whose exclude_on_match is set (the
\* default).
C4_ExclusionPrecedenceWhenEnabled ==
    (ExcludedWithoutTrigger /\ filterCfg.exclude_on_match) => RejectedAsExcluded

C4_Witness ==
    /\ ExcludedWithoutTrigger /\ filterCfg.exclude_on_match
    /\ filterCfg.require_trigger
    /\ Len(filterResult.matched_excludes) = 2

DefaultSettings == filterCfg.require_trigger /\ filterCfg.exclude_on_match

\* C5: with the default settings a document is accepted exactly when its
\* author is not "[deleted]", no exclusion keyword and at least one trigger
\* keyword occurs in the lower-cased title+body text; the recorded trigger
\* list then holds exactly the trigger keywords present, each once, and the
\* Lead built from it carries the same list.
C5_AcceptIffTriggerAndNoExclusion ==
    (Called /\ DefaultSettings) =>
        /\ filterResult.passed <=>
              /\ lastPost.author # DELETED
              /\ PresentIn(EXCLUDE_KEYWORDS, full_text(lastPost)) = {}
              /\ PresentIn(TRIGGER_KEYWORDS, full_text(lastPost)) # {}
        /\ filterResult.passed =>
              /\ ExactlyThePresent(filterResult.matched_triggers, TRIGGER_KEYWORDS,
                                   full_text(lastPost))
              /\ Len(yielded) = 1
              /\ yielded[1].matched_triggers = filterResult.matched_triggers
              /\ yielded[1].post_id = lastPost.id

C5_Witness ==
    /\ Called /\ DefaultSettings /\ filterResult.passed
    /\ Len(filterResult.matched_triggers) = 2
    /\ lower(full_text(lastPost)) # full_text(lastPost)
    /\ Len(yielded) = 1

\* the position in the input of the n-th passing document
NthPassing(n) ==
    CHOOSE k \in 1..Len(consumed) :
        /\ consumed[k].passed
        /\ Cardinality({j \in 1..k : consumed[j].passed}) = n

Failing == {k \in 1..Len(consumed) : ~consumed[k].passed}

\* C6: filter_posts yields one Lead per passing document and none for a
\* failing one, in input order and with the document's identifier; the number
\* of Leads yielded is the increase of the passed counter, and the failing
\* documents show in the other counters only.
C6_OneLeadPerPassingDocument ==
    /\ Len(yielded) = Len(consumed) - Cardinality(Failing)
    /\ \A n \in 1..Len(yielded) : yielded[n].post_id = consumed[NthPassing(n)].id
    /\ Len(yielded) = stats.passed - startStats.passed
    /\ Cardinality(Failing) =
          (stats.no_trigger + stats.excluded + stats.deleted_author)
        - (startStats.no_trigger + startStats.excluded + startStats.deleted_author)
    /\ stats.total - startStats.total = Len(consumed)

C6_Witness ==
    /\ Len(consumed) = 2
    /\ ~consumed[1].passed /\ consumed[2].passed
    /\ consumed[1].id # consumed[2].id
    /\ Len(yielded) = 1
    /\ startStats.passed = 1

----------------------------------------------------------------------------
(* Claims about the signal scorer *)

\* the positions of the input whose score is present and reaches the threshold
Qualifying ==
    {k \in 1..Len(scInput) :
        /\ scInput[k].signal_score.t = "int"
        /\ scInput[k].signal_score.v >= scThreshold}

NthQualifying(n) ==
    CHOOSE k \in Qualifying : Cardinality({j \in Qualifying : j <= k}) = n

\* C7: filter_high_signal returns exactly the leads of its input whose score
\* is present and >= the threshold (7 unless configured otherwise), in their
\* original order; a lead with no score is left out; the input list and its
\* leads are as they were.
C7_HighSignalSelection ==
    scCall.op = "filter_high_signal" =>
        /\ Len(scHigh) = Cardinality(Qualifying)
        /\ \A n \in 1..Len(scHigh) : scHigh[n] = scInput[NthQualifying(n)]
        /\ \A n \in 1..Len(scHigh) : scHigh[n].signal_score.t # "none"
        /\ scLeads = scInput

C7_Witness ==
    /\ scCall.op = "filter_high_signal"
    /\ scThreshold = 7
    /\ Len(scInput) = 4
    /\ scInput[1].signal_score = IntVal(9)
    /\ scInput[2].signal_score = None
    /\ scInput[3].signal_score = IntVal(5)
    /\ scInput[4].signal_score = IntVal(7)
    /\ scHigh = <<scInput[1], scInput[4]>>

Returned == scPos = -1

\* the fields the backend's answer for the k-th lead stands for
MockAnswer(k) ==
    [signal_score |-> IF scMock[k].score.t = "absent"
                      THEN IntVal(DEFAULT_SCORE) ELSE scMock[k].score,
     signal_type |-> IF scMock[k].signal_type.t = "absent"
                     THEN StrVal(DEFAULT_SIGNAL_TYPE) ELSE scMock[k].signal_type,
     category |-> IF scMock[k].category.t = "absent"
                  THEN StrVal(DEFAULT_CATEGORY) ELSE scMock[k].category]

AnalysisFields(lead) ==
    [signal_score |-> lead.signal_score, signal_type |-> lead.signal_type,
     category |-> lead.category]

\* C8: against a deterministic backend, score_leads leaves every lead with
\* the score, tier and category the backend gives its identifier, whatever
\* batch_size and use_batch are: every grouping and the one-by-one path end
\* with the same fields per identifier.
C8_SameFieldsForEveryGrouping ==
    Returned =>
        \A k \in 1..Len(scLeads) :
            /\ scLeads[k].post_id = scInput[k].post_id
            /\ AnalysisFields(scLeads[k]) = MockAnswer(k)

C8_Witness ==
    /\ Returned
    /\ Len(scLeads) = 3
    /\ scCalls = [batch |-> 2, single |-> 0]
    /\ scCall.response.items[1].id = "s3"
    /\ AnalysisFields(scLeads[1]) # AnalysisFields(scLeads[2])
    /\ AnalysisFields(scLeads[2]) # AnalysisFields(scLeads[3])

\* the last call was a _score_batch whose response parsed as an array and
\* raised nothing
BatchParsed ==
    /\ scCall.op = "batch"
    /\ ~scCall.fallback
    /\ scCall.response.t = "array"

GroupOf(leads) == SubSeq(leads, scCall.lo, scCall.hi)

Permuted(items, f) == [i \in 1..Len(items) |-> items[f[i]]]

\* C9: in _score_batch the results of a parsed array are matched by
\* identifier, never by position: every permutation of the array assigns the
\* same fields, a lead only receives a result carrying its own identifier,
\* and a result naming no lead of the group changes no lead.
C9_MatchedByIdentifier ==
    BatchParsed =>
        LET items  == scCall.response.items
            before == GroupOf(scCall.before)
            after  == GroupOf(scLeads)
            ids    == {before[k].post_id : k \in 1..Len(before)}
        IN  /\ \A f \in Bijections(1..Len(items), 1..Len(items)) :
                   score_batch(before, RArray(Permuted(items, f)), <<>>).leads = after
            /\ \A k \in 1..Len(after) :
                   after[k] # before[k] =>
                       \E i \in 1..Len(items) :
                           /\ items[i].id = before[k].post_id
                           /\ after[k] = Assign(before[k], items[i].p)
            /\ score_batch(before,
                           RArray(SelectSeq(items, LAMBDA r : r.id \in ids)),
                           <<>>).leads = after
            /\ \A k \in 1..Len(scLeads) :
                   k \notin scCall.lo..scCall.hi => scLeads[k] = scCall.before[k]

\* the response is the expected array: objects only, one at least for every
\* lead of the group
ExpectedArray(response, group) ==
    /\ response.t = "array"
    /\ \A i \in 1..Len(response.items) : response.items[i].t = "obj"
    /\ \A k \in 1..Len(group) :
           \E i \in 1..Len(response.items) : response.items[i].id = group[k].post_id

\* C10: when the batch call of a group fails or its response is not the
\* expected array of per-lead objects, every lead of the group is scored
\* through score_lead, one single-item call each, and holds nothing of the
\* batch response.
C10_FallbackScoresEveryLead ==
    (scCall.op = "batch" /\ ~ExpectedArray(scCall.response, GroupOf(scCall.before))) =>
        /\ scCall.fallback
        /\ Len(scCall.singles) = scCall.hi - scCall.lo + 1
        /\ \A k \in 1..Len(scCall.singles) :
               GroupOf(scLeads)[k] = score_lead(GroupOf(scCall.before)[k], scCall.singles[k])

\* the last call was a score_lead whose inference call gave nothing usable:
\* no response, a text that is no JSON, or JSON that is no object
SingleFailed ==
    /\ scCall.op = "single"
    /\ scCall.response.t \in {"none", "garbage", "scalar", "array"}

----------------------------------------------------------------------------
(* Claims about the response generator *)

Generated == rgCall.op = "generate_responses"

\* the lead the last generate_responses call worked on
Subject == rgLeads[rgCall.k]

\* the worthiness call of the last generate_responses failed: no response, a
\* text that is no JSON, or JSON that is no object
WorthinessFailed ==
    /\ Generated
    /\ rgRequireWorthy
    /\ rgCall.calls.worthy = 1
    /\ rgCall.worthy.t \in {"none", "garbage", "scalar", "array"}

DefaultReasons ==
    {StrVal("Evaluation failed - defaulting to worthy"),
     StrVal("Parse error - defaulting to worthy"),
     StrVal("Error - defaulting to worthy")}

\* C12: with the worthiness check enabled, a failed worthiness call makes
\* generate_responses set the lead's worthy flag to true with a reason naming
\* the default, and both draft calls are then made; the lead stays in the
\* list and is not counted as skipped.
C12_WorthinessFailureDefaultsToWorthy ==
    WorthinessFailed =>
        /\ Subject.comment_worthy = BoolVal(TRUE)
        /\ Subject.comment_worthy_reason \in DefaultReasons
        /\ rgCall.calls.public = 1 /\ rgCall.calls.dm = 1
        /\ Len(rgLeads) = Len(rgInput)
        /\ Subject.post_id = rgInput[rgCall.k].post_id
        /\ rgSkipped = rgCall.skipped

C12_Witness ==
    /\ WorthinessFailed
    /\ rgCall.worthy = RGarbage
    /\ rgCall.k = 2
    /\ Subject.public_draft = StrVal("draft")
    /\ Subject.dm_draft = None
    /\ rgSkipped = 1

\* the worthiness call of the last generate_responses answered "not worthy"
JudgedNotWorthy ==
    /\ Generated
    /\ rgRequireWorthy
    /\ rgCall.worthy.t = "object"
    /\ rgCall.worthy.p.worthy = BoolVal(FALSE)

SameLeadsSameOrder ==
    /\ Len(rgLeads) = Len(rgInput)
    /\ \A k \in 1..Len(rgLeads) : rgLeads[k].post_id = rgInput[k].post_id

\* C13: a lead judged not worthy gets no draft call, its two draft fields
\* stay unset, and it keeps its place in the list generate_responses_batch
\* returns, which holds the leads of the input in the order of the input.
C13_NotWorthyKeptWithoutDrafts ==
    /\ SameLeadsSameOrder
    /\ JudgedNotWorthy =>
           /\ rgCall.calls.public = 0 /\ rgCall.calls.dm = 0
           /\ Subject.public_draft = None /\ Subject.dm_draft = None
           /\ Subject.comment_worthy = BoolVal(FALSE)
           /\ rgSkipped = rgCall.skipped + 1

C13_Witness ==
    /\ JudgedNotWorthy
    /\ rgPos = -1
    /\ rgCall.k = 2
    /\ rgLeads[1].public_draft = StrVal("draft")
    /\ rgLeads[1].dm_draft = StrVal("draft")
    /\ rgSkipped = 1

----------------------------------------------------------------------------
(* Claims about the inference client *)

ClientCalled == gcCall.op \in ClientOps

ScoreLeadCalled == scCall.op = "score_lead"

ScoreLeadsReturned == scPos = -1

GenerateResponsesCalled == rgCall.op = "direct"

GenerateBatchReturned == rgPos = -1

\* C14: on a client without API key every call of the client returns None
\* and no request has been made, score_lead and score_leads leave every lead
\* as it was handed in, generate_responses and generate_responses_batch leave
\* every lead as it was handed in, and the batch reports 0 skipped.
C14_UnconfiguredClientDoesNothing ==
    /\ ~gcConfigured /\ ClientCalled => gcCall.result = None /\ gcNetwork = 0
    /\ ~scConfigured /\ ScoreLeadCalled => scLeads = scCall.before
    /\ ~scConfigured /\ ScoreLeadsReturned => scLeads = scInput
    /\ ~rgConfigured /\ GenerateResponsesCalled => rgLeads = rgCall.before
    /\ ~rgConfigured /\ GenerateBatchReturned => rgLeads = rgInput /\ rgSkipped = 0

C14_Witness ==
    /\ ~gcConfigured /\ ~scConfigured /\ ~rgConfigured
    /\ gcCall.op = "generate_json"
    /\ ScoreLeadCalled /\ ScoreLeadsReturned /\ Len(scLeads) = MaxLeads
    /\ GenerateResponsesCalled /\ GenerateBatchReturned /\ Len(rgLeads) = MaxDrafted

Pair(open, close) == (open = "{" /\ close = "}") \/ (open = "[" /\ close = "]")

RECURSIVE BalancedFrom(_, _, _)
BalancedFrom(span, i, stack) ==
    IF i > Len(span) THEN stack = <<>>
    ELSE IF span[i] \in Opening THEN BalancedFrom(span, i + 1, <<span[i]>> \o stack)
    ELSE IF span[i] \in Closing
    THEN /\ stack # <<>>
         /\ Pair(stack[1], span[i])
         /\ Tail(stack) = <<>> => i = Len(span)
         /\ BalancedFrom(span, i + 1, Tail(stack))
    ELSE stack # <<>> /\ BalancedFrom(span, i + 1, stack)

\* an opening bracket, its matching closing bracket, and what is between
Balanced(span) == span # <<>> /\ span[1] \in Opening /\ BalancedFrom(span, 1, <<>>)

BalancedSpans(text) ==
    {m \in (1..Len(text)) \X (1..Len(text)) :
        m[1] < m[2] /\ Balanced(SubSeq(text, m[1], m[2]))}

FirstBalancedSpan(text) ==
    LET first == Min({m[1] : m \in BalancedSpans(text)})
        last  == CHOOSE j \in 1..Len(text) : <<first, j>> \in BalancedSpans(text)
    IN  SubSeq(text, first, last)

\* what is between the first two fences
FencedBlock(text) ==
    LET fences == {i \in 1..Len(text) : text[i] = "fence"}
        open   == Min(fences)
    IN  IF Cardinality(fences) < 2 THEN <<>>
        ELSE SubSeq(text, open + 1, Min(fences \ {open}) - 1)

PreferredSpan(text) ==
    IF BalancedSpans(FencedBlock(text)) # {} THEN FirstBalancedSpan(FencedBlock(text))
    ELSE FirstBalancedSpan(text)

JsonReturned == gcCall.op = "generate_json" /\ gcCall.result # None

\* C16: when generate_json returns a text for a completion that holds a
\* balanced {...} or [...] span, the text returned is the first such span of
\* the fenced block if the block holds one, and else the first such span of
\* the completion.
C16_FirstBalancedSpan ==
    JsonReturned /\ BalancedSpans(gcCall.outcome.v) # {}
        => gcCall.result = Text(PreferredSpan(gcCall.outcome.v))

----------------------------------------------------------------------------
(* Claims about the orchestrator *)

Executed(stage) == \E i \in 1..Len(ruTrace) : ruTrace[i] = stage

Ended == ruStage \in {"done", "raised"}

\* the fields the Score and Generate stages write are all unset
Unanalysed(lead) ==
    /\ lead.signal_score = None /\ lead.signal_type = None /\ lead.category = None
    /\ lead.comment_worthy = None /\ lead.comment_worthy_reason = None
    /\ lead.public_draft = None /\ lead.dm_draft = None

\* C15: no exception leaves the Score or the Generate stage of a run: a run
\* that has entered one of them has not ended by raising, and after the Score
\* stage a lead the backend gave no answer about has its fields unset.
C15_NoExceptionFromStages ==
    /\ Executed("Score") \/ Executed("Generate") => ruStage # "raised"
    /\ Executed("Score") /\ ruConfigured =>
           \A k \in 1..Len(ruLeads) : ruAnswers[k].t = "none" => Unanalysed(ruLeads[k])

PassedTheFilter == filter_posts(DEFAULT_FILTER, ZeroStats, ruFeed).leads

C17_Skipped ==
    /\ ~Executed("Score") /\ ~Executed("Generate")
    /\ ruCalls = NoRunCalls
    /\ ruStage = "done" =>
           /\ ruLeads = PassedTheFilter
           /\ \A k \in 1..Len(ruLeads) : Unanalysed(ruLeads[k])
           /\ ruLeads # <<>> => sinkCall.op = "csv.save_leads" /\ sinkCall.leads = ruLeads
           /\ ruReport.leads_found = Len(ruLeads)
           /\ ruReport.high_signal_leads = 0

\* C17: when the backend is not configured, a run never executes the Score
\* or the Generate stage and makes no scorer, generator or inference call;
\* the list handed to the sink is the whole list of leads that passed the
\* filter, every analysis field unset; the run returns, and its statistics
\* show 0 high-signal leads.
C17_UnconfiguredRunSkipsAnalysis ==
    /\ [](~ruConfigured => C17_Skipped)
    /\ (~ruConfigured /\ ruStage = "start") ~> (ruStage = "done")

C17_Witness ==
    /\ ~ruConfigured /\ ruAnalyze
    /\ ruStage = "done"
    /\ Len(ruLeads) = 3
    /\ sinkCall.leads = ruLeads /\ Len(sinkCall.written) = 3

StageOrder == <<"Fetch", "Filter", "Score", "Generate", "Persist">>

StageIndex(stage) == CHOOSE i \in 1..Len(StageOrder) : StageOrder[i] = stage

QualifyingLead(lead) ==
    lead.signal_score.t = "int" /\ lead.signal_score.v >= SIGNAL_THRESHOLD

\* C19: in a run whose Score stage was executed, every lead handed to the
\* generator and every lead handed to the sink has a score and the score
\* is at least the threshold.
C19_OnlyQualifyingForwarded ==
    Executed("Score") /\ ruConfigured =>
        /\ Executed("Generate") =>
               \A k \in 1..Len(ruHigh) : QualifyingLead(ruHigh[k])
        /\ ruStage = "done" /\ ruLeads # <<>> =>
               \A k \in 1..Len(sinkCall.leads) : QualifyingLead(sinkCall.leads[k])

\* every answer of the backend is a score of 8
ScoresEight ==
    /\ ruAnswers # <<>>
    /\ \A k \in 1..Len(ruAnswers) :
           ruAnswers[k].t = "object" /\ ruAnswers[k].p.score = IntVal(8)

\* C20: on the end-to-end feed with a configured backend that scores every
\* lead 8, a run ends by returning its statistics: passed 3, excluded 1,
\* deleted_author 1; the first run saves 3 rows and skips 0, the second
\* saves 0 and skips 3.
C20_EndToEnd ==
    ruFeed = EndToEndFeed /\ ruConfigured /\ ruAnalyze /\ ScoresEight /\ Ended =>
        /\ ruStage = "done"
        /\ ruReport.filter_stats.passed = 3
        /\ ruReport.filter_stats.excluded = 1
        /\ ruReport.filter_stats.deleted_author = 1
        /\ ruRun = 1 => ruReport.leads_saved = 3 /\ ruReport.leads_skipped = 0
        /\ ruRun = 2 => ruReport.leads_saved = 0 /\ ruReport.leads_skipped = 3

-----------------------------------------------------------------------------
(* Claims about the sinks and concurrent writers *)

\* C21: the set of stored identifiers is read from the store in every sink
\* call, and the read comes immediately before each write: a row another
\* writer added before a write is seen by the duplicate test of that write,
\* so no call writes an identifier that was in the store when it wrote.
C21_WriteSeesExternalRows ==
    sinkCall.op \in {"csv.save_leads", "csv.save_lead"} =>
        StoredIds(sinkCall.written) \cap StoredIds(sinkCall.before) = {}

\* the first row of a store that has rows is the header
HeaderFirst(rows) == rows # <<>> => rows[1].kind = "header"

\* C22: the header row is created on the first write to a fresh store (a CSV
\* file that does not exist, a sheet with no rows yet): in every reachable
\* store state the first row is the header, so the dedup read, which skips
\* the first row, never skips a candidate row.
C22_HeaderIsFirstRow == HeaderFirst(csvRows) /\ HeaderFirst(sheetRows)

\* the part of C22 the CSV store keeps
C22_CsvHeaderIsFirstRow == HeaderFirst(csvRows) /\ (csvExists => csvRows # <<>>)

-----------------------------------------------------------------------------
(* Claims about the values the Score stage leaves *)

ScoredInRange(lead) ==
    /\ \/ lead.signal_score.t = "none"
       \/ lead.signal_score.t = "int" /\ lead.signal_score.v \in SCORE_RANGE
    /\ \/ lead.signal_type.t = "none"
       \/ lead.signal_type.t = "str" /\ lead.signal_type.v \in SIGNAL_TYPES
    /\ \/ lead.category.t = "none"
       \/ lead.category.t = "str" /\ lead.category.v \in CATEGORIES

\* C23: after the Score stage, whatever the backend answered, every lead's
\* score is unset or an integer in 1..10, its tier is one of HIGH, MEDIUM,
\* LOW and its category is one of the six categories; the threshold gate
\* that follows raises on no scored lead.
C23_ScoredFieldsInRange ==
    /\ scPos = -1 => \A k \in 1..Len(scLeads) : ScoredInRange(scLeads[k])
    /\ scCall.op # "filter_high_signal.raised"

\* the two halves of C23
C23_FieldsInRange == scPos = -1 => \A k \in 1..Len(scLeads) : ScoredInRange(scLeads[k])

C23_GateNeverRaises == scCall.op # "filter_high_signal.raised"

-----------------------------------------------------------------------------
(* Claims about the calls of one score_leads call *)

\* the leads the loop of score_leads has gone past
Processed == IF scPos = -1 THEN Len(scLeads) ELSE scPos

\* the groups the batch loop has gone past
GroupsProcessed == (Processed + scBatchSize - 1) \div scBatchSize

\* C24: within one score_leads call nothing is tried again: one batch call
\* per group at most, one single-item call per lead at most, made only on
\* the individual path or as the fallback of the lead's own group, and a
\* lead's score fields are written only in the step of its own group.
C24_NoInferenceCallRetried ==
    /\ scCalls.batch <= (IF Batching THEN GroupsProcessed ELSE 0)
    /\ scCalls.single <= Processed
    /\ \A k \in (Processed + 1)..Len(scLeads) : scLeads[k] = scInput[k]
    /\ scCall.op \in {"batch", "single"} =>
          /\ scCall.hi = Processed
          /\ \A k \in 1..Len(scLeads) :
                 k \notin scCall.lo..scCall.hi => scLeads[k] = scCall.before[k]
          /\ Len(scCall.singles) = (IF scCall.fallback THEN scCall.hi - scCall.lo + 1 ELSE 0)
          /\ scCall.op = "single" => ~Batching /\ scCall.lo = scCall.hi

\* score_leads has ended after two batch calls, one of which fell back to
\* single-item calls
C24_Witness ==
    /\ scPos = -1
    /\ scCalls.batch = 2
    /\ scCalls.single >= 1
    /\ scCall.op = "batch"

-----------------------------------------------------------------------------
(* Claims about a sink call that fails *)

\* the rows stored when the last call began are the first rows of the store
KeepsStoredRows(before, rows) ==
    /\ Len(before) <= Len(LeadRows(rows))
    /\ SubSeq(LeadRows(rows), 1, Len(before)) = before

\* the first n rows a call with these leads writes to a store with these rows
FirstRowsOf(leads, before, n) ==
    SubSeq(DedupBatch(leads, StoredIds(before)).rows, 1, n)

\* C25: when save_leads fails after it wrote N rows of the batch, the store
\* holds the rows it held before followed by those N rows; no sink call,
\* failing or not, removes or alters a row that was stored.
C25_WrittenRowsSurviveFailure ==
    /\ sinkCall.op = "csv.save_leads.raised" =>
          /\ Len(sinkCall.written) = sinkCall.saved
          /\ LeadRows(csvRows) =
                 sinkCall.before \o FirstRowsOf(sinkCall.leads, sinkCall.before, sinkCall.saved)
    /\ sinkCall.op \in {"csv.save_leads", "csv.save_lead", "csv.save_leads.raised"} =>
          KeepsStoredRows(sinkCall.before, csvRows)
    /\ sinkCall.op \in {"sheets.append_leads", "sheets.append_lead"} =>
          KeepsStoredRows(sinkCall.before, sheetRows)

\* save_leads raised at the second lead of a batch, after it wrote the row
\* of the first
C25_Witness ==
    /\ sinkCall.op = "csv.save_leads.raised"
    /\ sinkCall.saved = 1
    /\ Len(sinkCall.leads) = 2
    /\ Len(LeadRows(csvRows)) = Len(sinkCall.before) + 1

-----------------------------------------------------------------------------
(* Claims about the identifier read back from a stored URL *)

\* C26: for every lead from_post builds, the identifier the sink reads back
\* from the stored post URL (what stands between "/comments/" and the next
\* "/") is the lead's post_id, so the dedup read knows every row the sink
\* wrote.
C26_StoredUrlGivesPostId ==
    \A i \in 1..Len(csvRows) :
        csvRows[i].kind = "lead" => ExtractPostId(csvRows[i].post_url) = csvRows[i].post_id

\* what follows from it: the dedup read returns the identifier of every
\* stored row
C26_DedupKnowsEveryRow ==
    csvExists => StoredIds(LeadRows(csvRows)) \subseteq CsvExistingIds(TRUE, csvRows)

\* the same for the leads of a subreddit with any other name
C26_HoldsForOtherSubreddits ==
    \A i \in 1..Len(csvRows) :
        (csvRows[i].kind = "lead" /\ csvRows[i].post_id \in PostIds)
            => ExtractPostId(csvRows[i].post_url) = csvRows[i].post_id

-----------------------------------------------------------------------------
(* Claims about the scheduler *)

\* once the flag is cleared the loop starts no run
C27_NoRunAfterSignal == [][~running => run_count' = run_count]_vars

\* a signal does not end the run in progress: the run returns and is counted
C27_RunCompletes ==
    /\ [][schPc = "scout" => schPc' \in {"scout", "after"}]_vars
    /\ (schPc = "scout") ~> (schPc = "after")

\* a signal during the sleep ends it: no further increment is slept
C27_SignalEndsSleep ==
    [][(schPc = "sleep" /\ ~running) => (sleepLeft' = sleepLeft /\ schPc' # "body")]_vars

\* after a signal main leaves its loop
C27_LoopExits == ~running ~> (schPc \in {"stopped", "exited"})

C27_SuccessAtMostRuns == success_count <= run_count

\* C27: after a shutdown signal the scheduler starts no further scout run; a
\* run in progress is not aborted and completes; a signal during the sleep
\* between runs ends the sleep; the loop then exits; and at all times the
\* successful runs are no more than the runs started.
C27_GracefulShutdown ==
    /\ C27_NoRunAfterSignal
    /\ C27_RunCompletes
    /\ C27_SignalEndsSleep
    /\ C27_LoopExits
    /\ []C27_SuccessAtMostRuns

-----------------------------------------------------------------------------
(* Claims about the action CLI *)

\* the rows of the file before the call whose URL holds the id given
MatchingRows ==
    IF acCall.post_id = "" THEN {}
    ELSE {k \in 1..Len(acCall.before) : Contains(acCall.post_id, acCall.before[k].post_url)}

\* the file holds the rows it held, in their order, and only the first
\* matching row differs: it is sent, at the date of the call, and no longer
\* pending
OnlyFirstMatchMarked ==
    LET k == Min(MatchingRows)
    IN  /\ Len(acFile.rows) = Len(acCall.before)
        /\ \A i \in 1..Len(acCall.before) :
               acFile.rows[i] = IF i = k
                                THEN [acCall.before[i] EXCEPT !.sent = "yes",
                                                              !.sent_date = acCall.now]
                                ELSE acCall.before[i]
        /\ ~IsPending(acFile.rows[k])

\* C30: cmd_sent preserves the lead store: when a stored lead's URL holds
\* the id given, the store afterwards has the same leads in the same order
\* and only the first matching lead changed (sent, sent_date, no longer
\* pending); when none matches the store is unchanged; no row is lost.
C30_CmdSentPreservesStore ==
    acCall.op = "sent" =>
        IF MatchingRows = {} THEN acFile.rows = acCall.before
        ELSE OnlyFirstMatchMarked

\* what the code keeps: the same, for a call that did not raise
C30_PreservedUnlessRaised ==
    (acCall.op = "sent" /\ ~acCall.raised) =>
        IF MatchingRows = {} THEN acFile.rows = acCall.before
        ELSE OnlyFirstMatchMarked

\* a call raises only when it marks a row that is not the first, in a file
\* without the sent columns
C30_RaisesOnlyOnLaterRow ==
    (acCall.op = "sent" /\ acCall.raised) =>
        /\ MatchingRows # {} /\ Min(MatchingRows) > 1
        /\ ~acFile.sent_columns
        /\ acFile.rows = SubSeq(acCall.before, 1, Min(MatchingRows) - 1)

-----------------------------------------------------------------------------
(* Claims about the counters of the lexical filter *)

Outcomes4 == {"passed", "no_trigger", "excluded", "deleted_author"}

TotalIsSum(st) == st.total = st.passed + st.no_trigger + st.excluded + st.deleted_author

\* one call: total grew by one and exactly one outcome counter grew by one
OneCall(old, new) ==
    /\ new.total = old.total + 1
    /\ \E c \in Outcomes4 :
          /\ new[c] = old[c] + 1
          /\ \A d \in Outcomes4 \ {c} : new[d] = old[d]

\* C28: after any sequence of filter_post calls on a KeywordFilter instance
\* its total is the sum of passed, no_trigger, excluded and deleted_author;
\* every call adds one to total and one to exactly one of the four; the
\* counters of another instance stay as they were.
C28_CountersAddUp ==
    /\ [](TotalIsSum(stats) /\ TotalIsSum(otherStats))
    /\ [][/\ stats' # stats => (OneCall(stats, stats') /\ otherStats' = otherStats)
          /\ otherStats' # otherStats => (OneCall(otherStats, otherStats') /\ stats' = stats)
          /\ consumed' # consumed => stats' # stats]_vars

\* both instances have served calls, the first one calls of two outcomes
C28_Witness ==
    /\ Len(consumed) = 2
    /\ otherStats.total >= 1
    /\ stats.passed = 1
    /\ stats.total = 2

-----------------------------------------------------------------------------
(* Claims about the skipped count of the response generator *)

\* the last generate_responses call asked for the verdict and made no draft
\* call: the worthiness gate withheld the drafts
DraftsWithheld ==
    /\ rgCall.calls.worthy = 1
    /\ rgCall.calls.public = 0
    /\ rgCall.calls.dm = 0

\* C29: the skipped count generate_responses_batch returns is the number of
\* leads whose drafts the worthiness gate withheld in this call, whatever
\* the "worthy" key of the verdict holds and whether the check is enabled
\* or not: every loop iteration adds one to the count exactly when the
\* gate withheld the drafts of its lead, and the count starts at zero.
C29_SkippedCountsWithheld ==
    /\ rgCall.op = "none" => rgSkipped = 0
    /\ rgCall.op = "generate_responses" =>
          rgSkipped = rgCall.skipped + (IF DraftsWithheld THEN 1 ELSE 0)

\* what the code keeps: a verdict that is the boolean false is counted, and
\* nothing is counted when the drafts were made
C29_FalseVerdictCounted ==
    rgCall.op = "generate_responses" =>
        /\ rgSkipped >= rgCall.skipped
        /\ rgSkipped > rgCall.skipped => DraftsWithheld
        /\ (DraftsWithheld /\ rgCall.worthy.t = "object"
               /\ rgCall.worthy.p.worthy = BoolVal(FALSE)) => rgSkipped = rgCall.skipped + 1

====
